---- MODULE Spec2Model ----
(***************************************************************************)
(* Normalization engine of laser_ci_lg: the model disambiguator            *)
(* (extract_models_from_specs, both copies), the heuristic mapping         *)
(* (canonical_key, parse_value_to_unit), LLM escalation and the two        *)
(* normalization passes normalize_all and normalize_all_batch.             *)
(*                                                                         *)
(* Python values are tagged records: None, F(n,d) a float n/d, S(s) a      *)
(* string, B(b) a bool, L(seq) a list, D(dict) a dict.  A dict is an       *)
(* insertion-ordered sequence of <<key, value>> pairs, as in Python.       *)
(* A composite key is the sequence of its '_'-separated parts.             *)
(***************************************************************************)
EXTENDS Integers, Sequences, FiniteSets, TLC

VARIABLES
    arg,               \* pure-function specifications: the input drawn
    out,               \* pure-function specifications: the results computed
    variant,           \* "normalize_all" | "normalize_all_batch"
    use_llm,           \* the use_llm parameter of the pass
    raw_docs,          \* table raw_documents
    normalized_specs,  \* table normalized_specs (committed rows)
    pc,                \* position of the pass
    by_pid,            \* product ids still to be visited, in query order
    cur,               \* the product being processed: pid, docs, merged_raw
    models,            \* models of the product still to be processed
    futures,           \* concurrent path: model name -> state of its worker
    completed,         \* concurrent path: workers in order of completion
    session,           \* rows added to the session, not yet committed
    inserted,          \* the counter of the pass
    ret,               \* value returned by the pass
    log,               \* history: one entry per model the pass worked on
    pdf_cache          \* directory data/pdf_cache: file path -> bytes

vars == <<arg, out, variant, use_llm, raw_docs, normalized_specs, pc, by_pid,
          cur, models, futures, completed, session, inserted, ret, log,
          pdf_cache>>

runVars == <<variant, use_llm, raw_docs, normalized_specs, pc, by_pid,
             cur, models, futures, completed, session, inserted, ret, log,
             pdf_cache>>

(***************************************************************************)
(* Python values                                                           *)
(***************************************************************************)
None == [t |-> "none"]
RAISE == [t |-> "raise"]
F(n, d) == [t |-> "float", n |-> n, d |-> d]
S(s) == [t |-> "str", v |-> s]
B(b) == [t |-> "bool", v |-> b]
L(q) == [t |-> "list", v |-> q]
D(q) == [t |-> "dict", v |-> q]
BIGINT == [t |-> "bigint"]

\* insertion-ordered dict: sequence of <<key, value>> with distinct keys
Keys(d) == {d[i][1] : i \in DOMAIN d}
HasKey(d, k) == \E i \in DOMAIN d : d[i][1] = k
Get(d, k) == d[CHOOSE i \in DOMAIN d : d[i][1] = k][2]
\* d[k] = v
Put(d, k, v) ==
    IF HasKey(d, k)
    THEN [i \in DOMAIN d |-> IF d[i][1] = k THEN <<k, v>> ELSE d[i]]
    ELSE Append(d, <<k, v>>)
\* the element of a singleton; The({f(x) : x \in {e}}) is f(e) with e
\* computed once
The(s) == CHOOSE x \in s : TRUE
\* d.update(e)
RECURSIVE Update(_, _)
Update(d, e) ==
    IF e = <<>> THEN d
    ELSE The({Update(x, Tail(e)) : x \in {Put(d, e[1][1], e[1][2])}})

(***************************************************************************)
(* Strings.  TLC strings are atomic, so what the code asks of a string     *)
(* (lower(), upper(), substring tests, the regex \d) is tabulated for the  *)
(* strings of the model's universe.                                        *)
(***************************************************************************)
\* spec halves of composite keys and plain labels
SpecLabels ==
    {"Wavelength", "Output Power", "Min. Power", "RMS Noise",
     "Power Stability", "M2", "Beam Diameter", "Beam Divergence",
     "Polarization", "Linewidth", "Warm-up Time", "Power", "Serial", "model"}
\* model halves of composite keys and product names
ModelNames ==
    {"LuxX 405-60", "405-60", "OBIS", "Pro", "Beam 5", "Rev\\d", "Cobolt"}
Strings == SpecLabels \cup ModelNames

\* s.strip().lower()
Lower(s) ==
    CASE s = "Wavelength" -> "wavelength"
      [] s = "Output Power" -> "output power"
      [] s = "Min. Power" -> "min. power"
      [] s = "RMS Noise" -> "rms noise"
      [] s = "Power Stability" -> "power stability"
      [] s = "M2" -> "m2"
      [] s = "Beam Diameter" -> "beam diameter"
      [] s = "Beam Divergence" -> "beam divergence"
      [] s = "Polarization" -> "polarization"
      [] s = "Linewidth" -> "linewidth"
      [] s = "Warm-up Time" -> "warm-up time"
      [] s = "Power" -> "power"
      [] s = "Serial" -> "serial"
      [] s = "model" -> "model"
      [] s = "LuxX 405-60" -> "luxx 405-60"
      [] s = "405-60" -> "405-60"
      [] s = "OBIS" -> "obis"
      [] s = "Pro" -> "pro"
      [] s = "Beam 5" -> "beam 5"
      [] s = "Rev\\d" -> "rev\\d"
      [] s = "Cobolt" -> "cobolt"

\* the words of the two vocabularies that occur in s, case-insensitively
\* (w in s.lower(), W in s.upper())
Occurring(s) ==
    CASE s = "Wavelength" -> {"wavelength"}
      [] s = "Output Power" -> {"power"}
      [] s = "Min. Power" -> {"power"}
      [] s = "RMS Noise" -> {"noise"}
      [] s = "Power Stability" -> {"power", "stability"}
      [] s = "Beam Diameter" -> {"beam"}
      [] s = "Beam Divergence" -> {"beam"}
      [] s = "Polarization" -> {"polarization"}
      [] s = "Linewidth" -> {"linewidth"}
      [] s = "Power" -> {"power"}
      [] s = "LuxX 405-60" -> {"luxx"}
      [] s = "OBIS" -> {"obis"}
      [] s = "Beam 5" -> {"beam"}
      [] OTHER -> {}

\* re.search(r'\d+', s)
HasDigit(s) == s \in {"M2", "LuxX 405-60", "405-60", "Beam 5"}
\* s contains a backslash followed by 'd'
HasBackslashD(s) == s \in {"Rev\\d"}

\* "m(2)" stands for 'm' followed by the superscript-two sign
SPEC_WORDS ==
    {"wavelength", "power", "beam", "noise", "stability", "linewidth", "m(2)",
     "polarization"}
MODEL_PATTERNS ==
    {"lx", "ls", "lbx", "lcx", "obis", "luxx", "celesta", "spectra", "sola"}

\* any(spec_word in part.lower() for spec_word in [...])
HasSpecWord(part) == Occurring(part) \cap SPEC_WORDS # {}
\* any(pattern in model_name.upper() for pattern in [...])
HasModelPattern(name) == Occurring(name) \cap MODEL_PATTERNS # {}

(***************************************************************************)
(* Model disambiguator                                                     *)
(***************************************************************************)
\* key.split('_', 1) of a key with an underscore: the part before the first
\* '_' and the rest (keys of the universe hold at most one '_').  A spec
\* name is a key again (here of one part), a model name is a string.
SpecHalf(key) ==
    IF HasSpecWord(key[1]) THEN <<key[1]>>
    ELSE IF HasSpecWord(key[2]) THEN <<key[2]>>
    ELSE <<key[1]>>
ModelHalf(key) ==
    IF HasSpecWord(key[1]) THEN key[2]
    ELSE IF HasSpecWord(key[2]) THEN key[1]
    ELSE key[2]

\* normalize.py: re.search(r'\d+', model_name) or any(pattern in ...)
LooksValid(model_name) == HasDigit(model_name) \/ HasModelPattern(model_name)
\* normalize_batch.py: re.search(r'\\d+', model_name) or any(pattern in ...);
\* the raw string r'\\d+' is the regex "backslash, then d's"
LooksValidBatch(model_name) ==
    HasBackslashD(model_name) \/ HasModelPattern(model_name)

\* models[model_name][spec_name] = value
AddSpec(ms, model_name, spec_name, value) ==
    IF HasKey(ms, model_name)
    THEN Put(ms, model_name, Put(Get(ms, model_name), spec_name, value))
    ELSE Append(ms, <<model_name, <<<<spec_name, value>>>>>>)

RECURSIVE ExtractLoop(_, _, _)
ExtractLoop(raw_specs, ms, batch) ==
    IF raw_specs = <<>> THEN ms
    ELSE LET key == raw_specs[1][1]
             value == raw_specs[1][2]
             valid == IF batch THEN LooksValidBatch(ModelHalf(key))
                               ELSE LooksValid(ModelHalf(key))
         IN The({ExtractLoop(Tail(raw_specs), x, batch) :
                   x \in {IF Len(key) > 1 /\ valid
                          THEN AddSpec(ms, ModelHalf(key), SpecHalf(key), value)
                          ELSE ms}})

\* normalize.extract_models_from_specs
extract_models_from_specs(raw_specs) == ExtractLoop(raw_specs, <<>>, FALSE)
\* normalize_batch.extract_models_from_specs
extract_models_from_specs_batch(raw_specs) == ExtractLoop(raw_specs, <<>>, TRUE)

(***************************************************************************)
(* Key canonicalizer                                                       *)
(***************************************************************************)
CANONICAL_SPEC_KEYS ==
    {"wavelength_nm", "output_power_mw_nominal", "output_power_mw_min",
     "rms_noise_pct", "power_stability_pct", "linewidth_mhz", "linewidth_nm",
     "m2", "beam_diameter_mm", "beam_divergence_mrad", "polarization",
     "modulation_analog_hz", "modulation_digital_hz", "ttl_shutter",
     "fiber_output", "fiber_na", "fiber_mfd_um", "warmup_time_min",
     "interfaces", "dimensions_mm"}

\* the ordered regex table; each regex is given by the lower-case labels it
\* matches ("noise", "m2", "beam diameter" stand for the patterns
\* ^(rms )?noise( \(.*\))?$, ^m.?2$ and ^beam diameter.*$)
KEY_MAP ==
    << <<{"wavelength", "wavelengths", "lambda", "emission wavelength"},
         "wavelength_nm">>,
       <<{"output power", "optical power", "cw power", "typ. power",
          "maximum output power"}, "output_power_mw_nominal">>,
       <<{"min. power", "power min"}, "output_power_mw_min">>,
       <<{"noise", "rms noise", "intensity noise"}, "rms_noise_pct">>,
       <<{"power stability", "long-term stability", "longterm stability",
          "long-term power stability", "longterm power stability", "ltp"},
         "power_stability_pct">>,
       <<{"m2", "m^2", "m(2)", "beam quality"}, "m2">>,
       <<{"beam diameter", "output beam diameter"}, "beam_diameter_mm">>,
       <<{"beam divergence", "half-angle divergence"}, "beam_divergence_mrad">>,
       <<{"polarization", "polarization ratio"}, "polarization">>,
       <<{"linewidth", "spectral linewidth", "fwhm"}, "linewidth_mhz">>,
       <<{"analog modulation", "am bandwidth"}, "modulation_analog_hz">>,
       <<{"digital modulation", "ttl modulation", "blanking rate",
          "modulation depth"}, "modulation_digital_hz">>,
       <<{"electronic shutter", "laser inhibit"}, "ttl_shutter">>,
       <<{"fiber output", "fiber delivery"}, "fiber_output">>,
       <<{"fiber na", "na"}, "fiber_na">>,
       <<{"mode field diameter", "mfd"}, "fiber_mfd_um">>,
       <<{"interface", "interfaces", "control interface"}, "interfaces">>,
       <<{"warm-up time", "warmup time"}, "warmup_time_min">>,
       <<{"dimension", "dimensions", "size", "footprint"}, "dimensions_mm">> >>

\* first pattern of KEY_MAP that matches vendor_key.strip().lower(), or None.
\* Of a key with an underscore only a prefix can match: ^beam diameter.*$
\* (^m.?2$ needs the key 'm_2', which the universe does not hold).
canonical_key(vendor_key) ==
    LET k == Lower(vendor_key[1])
        hits == {i \in DOMAIN KEY_MAP : k \in KEY_MAP[i][1]}
    IN IF Len(vendor_key) > 1
       THEN IF k = "beam diameter" THEN "beam_diameter_mm" ELSE "None"
       ELSE IF hits = {} THEN "None"
       ELSE KEY_MAP[CHOOSE i \in hits : \A j \in hits : i <= j][2]

(***************************************************************************)
(* Value strings: operator prefix, numeral ([\d.]+ run), rest              *)
(***************************************************************************)
ValueStrings ==
    {"405 nm", "488 nm", "60 mW", "2 W", "60", "100", "2", "1.2.3 mW",
     "Linear", "SN-7", "90 s", "0.5 nm", "10 MHz", "5 kHz", "100 Hz",
     "1.2.3 kHz", ". mW", "5 min", ". min", "2 mm", "6 (mu)m", "0.5 %",
     "NA 0.12", "NA .", "Yes", "SMF", "USB/RS232",
     "<0.25%", "0.25%", "(>=)50 mW", "50 mW", "<2", "< 2", "<5 kHz",
     "(<=)90 s", ">6 (mu)m", "<2 W", "<0.5 nm", ">2 mm", "<5 min"}

\* "(mu)" stands for the micro sign ("(MU)" for its upper case), "(>=)" and
\* "(<=)" for the signs of "at least" and "at most"; op is the text before
\* the numeral
Tok(v) ==
    CASE v = "405 nm" -> [op |-> "", num |-> "405", unit |-> "nm"]
      [] v = "488 nm" -> [op |-> "", num |-> "488", unit |-> "nm"]
      [] v = "60 mW" -> [op |-> "", num |-> "60", unit |-> "mW"]
      [] v = "2 W" -> [op |-> "", num |-> "2", unit |-> "W"]
      [] v = "60" -> [op |-> "", num |-> "60", unit |-> ""]
      [] v = "100" -> [op |-> "", num |-> "100", unit |-> ""]
      [] v = "2" -> [op |-> "", num |-> "2", unit |-> ""]
      [] v = "1.2.3 mW" -> [op |-> "", num |-> "1.2.3", unit |-> "mW"]
      [] v = "90 s" -> [op |-> "", num |-> "90", unit |-> "s"]
      [] v = "Linear" -> [op |-> "", num |-> "", unit |-> "Linear"]
      [] v = "SN-7" -> [op |-> "", num |-> "", unit |-> "SN-7"]
      [] v = "0.5 nm" -> [op |-> "", num |-> "0.5", unit |-> "nm"]
      [] v = "10 MHz" -> [op |-> "", num |-> "10", unit |-> "MHz"]
      [] v = "5 kHz" -> [op |-> "", num |-> "5", unit |-> "kHz"]
      [] v = "100 Hz" -> [op |-> "", num |-> "100", unit |-> "Hz"]
      [] v = "1.2.3 kHz" -> [op |-> "", num |-> "1.2.3", unit |-> "kHz"]
      [] v = ". mW" -> [op |-> "", num |-> ".", unit |-> "mW"]
      [] v = "5 min" -> [op |-> "", num |-> "5", unit |-> "min"]
      [] v = ". min" -> [op |-> "", num |-> ".", unit |-> "min"]
      [] v = "2 mm" -> [op |-> "", num |-> "2", unit |-> "mm"]
      [] v = "6 (mu)m" -> [op |-> "", num |-> "6", unit |-> "(mu)m"]
      [] v = "0.5 %" -> [op |-> "", num |-> "0.5", unit |-> "%"]
      [] v = "NA 0.12" -> [op |-> "NA", num |-> "0.12", unit |-> ""]
      [] v = "NA ." -> [op |-> "NA", num |-> ".", unit |-> ""]
      [] v = "Yes" -> [op |-> "", num |-> "", unit |-> "Yes"]
      [] v = "SMF" -> [op |-> "", num |-> "", unit |-> "SMF"]
      [] v = "USB/RS232" -> [op |-> "", num |-> "", unit |-> "USB/RS232"]
      [] v = "<0.25%" -> [op |-> "<", num |-> "0.25", unit |-> "%"]
      [] v = "0.25%" -> [op |-> "", num |-> "0.25", unit |-> "%"]
      [] v = "(>=)50 mW" -> [op |-> "(>=)", num |-> "50", unit |-> "mW"]
      [] v = "50 mW" -> [op |-> "", num |-> "50", unit |-> "mW"]
      [] v = "<2" -> [op |-> "<", num |-> "2", unit |-> ""]
      [] v = "< 2" -> [op |-> "<", num |-> "2", unit |-> ""]
      [] v = "<5 kHz" -> [op |-> "<", num |-> "5", unit |-> "kHz"]
      [] v = "(<=)90 s" -> [op |-> "(<=)", num |-> "90", unit |-> "s"]
      [] v = ">6 (mu)m" -> [op |-> ">", num |-> "6", unit |-> "(mu)m"]
      [] v = "<2 W" -> [op |-> "<", num |-> "2", unit |-> "W"]
      [] v = "<0.5 nm" -> [op |-> "<", num |-> "0.5", unit |-> "nm"]
      [] v = ">2 mm" -> [op |-> ">", num |-> "2", unit |-> "mm"]
      [] v = "<5 min" -> [op |-> "<", num |-> "5", unit |-> "min"]

\* float(numeral): the float, or RAISE (ValueError) for a malformed numeral
RECURSIVE Gcd(_, _)
Gcd(a, b) == IF b = 0 THEN a ELSE Gcd(b, a % b)
Frac(n, d) == F(n \div Gcd(n, d), d \div Gcd(n, d))
Float(num) ==
    CASE num = "405" -> F(405, 1)
      [] num = "488" -> F(488, 1)
      [] num = "60" -> F(60, 1)
      [] num = "2" -> F(2, 1)
      [] num = "100" -> F(100, 1)
      [] num = "90" -> F(90, 1)
      [] num = "10" -> F(10, 1)
      [] num = "5" -> F(5, 1)
      [] num = "6" -> F(6, 1)
      [] num = "0.5" -> F(1, 2)
      [] num = "0.12" -> F(3, 25)
      [] num = "0.25" -> F(1, 4)
      [] num = "50" -> F(50, 1)
      [] OTHER -> RAISE

\* to_float(x): float() after stripping operator and commas; None on failure
to_float_group(num) == IF Float(num) = RAISE THEN None ELSE Float(num)
\* re.sub(r'^[<>≤≥]\s*', '', x) removes one of these from the front
Comparators == {"<", ">", "(<=)", "(>=)"}
\* to_float that does not remove the comparison operator
to_float_unstripped(v) ==
    IF Tok(v).unit = "" /\ Tok(v).op = ""
    THEN to_float_group(Tok(v).num) ELSE None
\* to_float(v) of the whole value: only a bare numeral converts, with or
\* without a comparison operator before it
to_float(v) ==
    IF Tok(v).unit = "" /\ Tok(v).op \in Comparators \cup {""}
    THEN to_float_group(Tok(v).num) ELSE None

\* v.upper()
Upper(v) ==
    CASE v = "Linear" -> "LINEAR"
      [] v = "SN-7" -> "SN-7"
      [] v = "405 nm" -> "405 NM"
      [] v = "488 nm" -> "488 NM"
      [] v = "60 mW" -> "60 MW"
      [] v = "2 W" -> "2 W"
      [] v = "1.2.3 mW" -> "1.2.3 MW"
      [] v = "90 s" -> "90 S"
      [] v = "0.5 nm" -> "0.5 NM"
      [] v = "10 MHz" -> "10 MHZ"
      [] v = "5 kHz" -> "5 KHZ"
      [] v = "100 Hz" -> "100 HZ"
      [] v = "1.2.3 kHz" -> "1.2.3 KHZ"
      [] v = ". mW" -> ". MW"
      [] v = "5 min" -> "5 MIN"
      [] v = ". min" -> ". MIN"
      [] v = "2 mm" -> "2 MM"
      [] v = "6 (mu)m" -> "6 (MU)M"
      [] v = "NA 0.12" -> "NA 0.12"
      [] v = "NA ." -> "NA ."
      [] v = "Yes" -> "YES"
      [] v = "(>=)50 mW" -> "(>=)50 MW"
      [] v = "50 mW" -> "50 MW"
      [] v = "<5 kHz" -> "<5 KHZ"
      [] v = "(<=)90 s" -> "(<=)90 S"
      [] v = ">6 (mu)m" -> ">6 (MU)M"
      [] v = "<0.5 nm" -> "<0.5 NM"
      [] v = ">2 mm" -> ">2 MM"
      [] v = "<5 min" -> "<5 MIN"
      [] OTHER -> v

\* the alternatives (lower case) that the text after the numeral starts with
StartsWith(unit) ==
    CASE unit = "nm" -> {"nm"}
      [] unit = "mW" -> {"mw", "m"}
      [] unit = "W" -> {"w"}
      [] unit = "s" -> {"s"}
      [] unit = "MHz" -> {"mhz", "m"}
      [] unit = "kHz" -> {"khz"}
      [] unit = "Hz" -> {"hz"}
      [] unit = "min" -> {"min", "m"}
      [] unit = "mm" -> {"mm", "m"}
      [] unit = "(mu)m" -> {"(mu)m"}
      [] unit = "%" -> {"%"}
      [] OTHER -> {}

\* re.search(r"([\d\.]+)\s*(a|b|..)", v, re.I): the alternative matched, the
\* first of alts in order, or "" when the regex does not match
Match(v, alts) ==
    LET hits == {i \in DOMAIN alts : alts[i] \in StartsWith(Tok(v).unit)}
    IN IF Tok(v).num = "" \/ hits = {} THEN ""
       ELSE alts[CHOOSE i \in hits : \A j \in hits : i <= j]

Scale(f, mul, div) == Frac(f.n * mul, f.d * div)

\* float(m.group(1)) * factor, outside to_float: RAISE for a malformed numeral
Scaled(num, mul, div) ==
    IF Float(num) = RAISE THEN RAISE ELSE Scale(Float(num), mul, div)

\* {"hz": 1, "khz": 1e3, "mhz": 1e6}[m.group(2).lower()]
Factor(unit) ==
    CASE unit = "hz" -> 1 [] unit = "khz" -> 1000 [] unit = "mhz" -> 1000000

\* [t.strip().upper().replace("RS232", "RS-232") for t in toks if t.strip()]
Interfaces(v) ==
    IF v = "USB/RS232" THEN L(<<"USB", "RS-232">>) ELSE L(<<Upper(v)>>)

\* parse_value_to_unit; RAISE is an exception leaving the function
parse_value_to_unit(key, v) ==
    CASE key = "wavelength_nm" ->
           IF Match(v, <<"nm">>) # "" THEN to_float_group(Tok(v).num)
           ELSE to_float(v)
      [] key \in {"output_power_mw_nominal", "output_power_mw_min"} ->
           IF Match(v, <<"mw", "w">>) = "" THEN to_float(v)
           ELSE IF Float(Tok(v).num) = RAISE THEN RAISE
           ELSE IF Match(v, <<"mw", "w">>) = "w"
                THEN Scale(Float(Tok(v).num), 1000, 1)
                ELSE Float(Tok(v).num)
      [] key \in {"rms_noise_pct", "power_stability_pct"} ->
           IF Match(v, <<"%">>) # "" THEN to_float_group(Tok(v).num)
           ELSE to_float(v)
      [] key \in {"linewidth_mhz", "linewidth_nm"} ->
           IF Match(v, <<"mhz">>) # "" THEN to_float_group(Tok(v).num)
           ELSE IF Match(v, <<"nm", "pm">>) # "" THEN to_float_group(Tok(v).num)
           ELSE to_float(v)
      [] key = "beam_diameter_mm" ->
           IF Match(v, <<"mm">>) # "" THEN to_float_group(Tok(v).num)
           ELSE to_float(v)
      [] key = "beam_divergence_mrad" ->
           IF Match(v, <<"mrad">>) # "" THEN to_float_group(Tok(v).num)
           ELSE to_float(v)
      [] key = "m2" -> to_float(v)
      [] key \in {"modulation_analog_hz", "modulation_digital_hz"} ->
           IF Match(v, <<"hz", "khz", "mhz">>) = "" THEN to_float(v)
           ELSE Scaled(Tok(v).num, Factor(Match(v, <<"hz", "khz", "mhz">>)), 1)
      [] key = "ttl_shutter" -> B(v \in {"Yes"})
      [] key = "fiber_output" -> B(v \in {"Yes", "SMF"})
      [] key = "fiber_na" ->
           IF Tok(v).op = "NA" THEN Scaled(Tok(v).num, 1, 1) ELSE to_float(v)
      [] key = "fiber_mfd_um" ->
           IF Match(v, <<"(mu)m", "m">>) # "" THEN Scaled(Tok(v).num, 1, 1)
           ELSE to_float(v)
      [] key = "warmup_time_min" ->
           IF Match(v, <<"min", "s">>) = "" THEN to_float(v)
           ELSE IF Float(Tok(v).num) = RAISE THEN RAISE
           ELSE IF Match(v, <<"min", "s">>) = "s"
                THEN Scale(Float(Tok(v).num), 1, 60)
                ELSE Float(Tok(v).num)
      [] key = "interfaces" -> Interfaces(v)
      \* no value string of the universe holds three numerals and "mm"
      [] key = "dimensions_mm" -> None
      [] key = "polarization" -> S(Upper(v))
      [] OTHER -> S(v)

(***************************************************************************)
(* Heuristic mapping and LLM escalation of one model                       *)
(***************************************************************************)
RecordKeys == CANONICAL_SPEC_KEYS \cup {"vendor_fields"}

\* the threshold of "mapped_count < 10"
SUFFICIENT == 10

\* for spec_name, spec_value in model_specs.items(): ...
\* st = [ok, canonical, extras]; ok = FALSE when parse_value_to_unit raised
\* if parsed is not None: canonical[ck] = parsed
Store(st, ck, parsed) ==
    IF parsed = RAISE THEN [st EXCEPT !.ok = FALSE]
    ELSE IF parsed # None THEN [st EXCEPT !.canonical[ck] = parsed]
    ELSE st

\* the body of the loop for one (spec_name, spec_value), ck its canonical key
MapSpec(st, spec_name, spec_value, ck) ==
    IF ck # "None"
    THEN The({Store(st, ck, parsed) :
                 parsed \in {parse_value_to_unit(ck, spec_value)}})
    ELSE [st EXCEPT !.extras = Put(@, spec_name, S(spec_value))]

RECURSIVE HeuristicLoop(_, _)
HeuristicLoop(model_specs, st) ==
    IF model_specs = <<>> \/ ~st.ok THEN st
    ELSE The({HeuristicLoop(Tail(model_specs), x) :
                 x \in {The({MapSpec(st, model_specs[1][1],
                                     model_specs[1][2], ck) :
                                ck \in {canonical_key(model_specs[1][1])}})}})

\* extras['model'] = model_name; canonical["vendor_fields"] = extras or None
WithVendorFields(st, extras) ==
    [ok |-> st.ok,
     canonical |-> [st.canonical EXCEPT !["vendor_fields"] =
                       IF extras = <<>> THEN None ELSE D(extras)]]
AddModel(st, model_name) ==
    The({WithVendorFields(st, extras) :
            extras \in {Put(st.extras, <<"model">>, S(model_name))}})

\* canonical = {k: None ...}; extras = {}; the loop; the model marker
heuristic_mapping(model_name, model_specs) ==
    The({AddModel(st, model_name) :
            st \in {HeuristicLoop(model_specs,
                        [ok |-> TRUE,
                         canonical |-> [k \in RecordKeys |-> None],
                         extras |-> <<>>])}})

\* sum(1 for v in canonical.values() if v is not None and v != {})
mapped_count(canonical) ==
    Cardinality({k \in DOMAIN canonical :
                    canonical[k] # None /\ canonical[k] # D(<<>>)})

\* float(x): x a JSON scalar; "keep" stands for ValueError/TypeError
FloatOf(x) ==
    CASE x.t = "float" -> x
      [] x.t = "bool" -> IF x.v THEN F(1, 1) ELSE F(0, 1)
      [] x.t = "str" -> IF to_float_group(x.v) = None THEN S("keep")
                        ELSE to_float_group(x.v)
      [] x.t = "bigint" -> RAISE
      [] OTHER -> S("keep")

\* float(x) if isinstance(x, (int, float)) else x
FloatIfNumber(x) ==
    IF x.t \in {"float", "bool", "bigint"} THEN FloatOf(x) ELSE x

\* the value the merge stores in canonical[k] for a non-null llm_result[k];
\* None: canonical[k] is left alone; RAISE: an exception leaves the merge
Merged(k, value) ==
    IF value.t = "dict"
    THEN IF HasKey(value.v, "value") THEN FloatIfNumber(Get(value.v, "value"))
         ELSE IF HasKey(value.v, "typical")
              THEN FloatIfNumber(Get(value.v, "typical"))
         ELSE IF HasKey(value.v, "nominal")
              THEN FloatIfNumber(Get(value.v, "nominal"))
         ELSE None
    ELSE IF k \in {"polarization", "interfaces", "dimensions_mm", "vendor_fields"}
         THEN value
    ELSE IF FloatOf(value) = S("keep") THEN value ELSE FloatOf(value)

\* for k in CANONICAL_SPEC_KEYS: ... in the iteration order `order` of the
\* keys the response holds with a non-null value; stops at an exception
\* Assign that fills only the fields the heuristics left null
AssignGapsOnly(canonical, k, m) ==
    IF m = None \/ canonical[k] # None THEN canonical
    ELSE [canonical EXCEPT ![k] = m]

\* canonical[k] = m, unless the merge leaves the field alone
Assign(canonical, k, m) ==
    IF m = None THEN canonical ELSE [canonical EXCEPT ![k] = m]

RECURSIVE MergeLoop(_, _, _)
MergeStep(canonical, llm_result, order, m) ==
    IF m = RAISE THEN [raised |-> TRUE, canonical |-> canonical]
    ELSE The({MergeLoop(x, llm_result, Tail(order)) :
                 x \in {Assign(canonical, order[1], m)}})
MergeLoop(canonical, llm_result, order) ==
    IF order = <<>> THEN [raised |-> FALSE, canonical |-> canonical]
    ELSE The({MergeStep(canonical, llm_result, order, m) :
                 m \in {Merged(order[1], Get(llm_result.v, order[1]))}})

\* the keys the merge loop acts on
Touched(llm_result) ==
    IF llm_result.t # "dict" THEN {}
    ELSE {k \in CANONICAL_SPEC_KEYS :
             HasKey(llm_result.v, k) /\ Get(llm_result.v, k) # None}

\* the try block after llm_normalize returned llm_result: the merge loop,
\* then extras.update(llm_result['vendor_fields']); every exception is caught
\* and leaves canonical as mutated so far.  A response that is not a JSON
\* object changes nothing (it raises TypeError at its first use, or holds no
\* key).
UpdateVendorFields(r, vf) ==
    IF r.raised \/ vf.t # "dict" THEN r.canonical
    ELSE [r.canonical EXCEPT !["vendor_fields"] = D(Update(@.v, vf.v))]
llm_merge(canonical, llm_result, order) ==
    IF llm_result.t # "dict" THEN canonical
    ELSE The({UpdateVendorFields(r,
                 IF HasKey(llm_result.v, "vendor_fields")
                 THEN Get(llm_result.v, "vendor_fields") ELSE None) :
                 r \in {MergeLoop(canonical, llm_result, order)}})

\* normalize_all: "if use_llm and mapped_count < 10"
escalates(use, canonical) == use /\ mapped_count(canonical) < SUFFICIENT

\* one model, from the heuristic mapping to the finished canonical dict.
\* llm is what llm_normalize does when called: RAISE or the JSON it returns.
\* status "raised": an exception left the code (parse_value_to_unit raised).
\* Escalate with an exception handler that does not keep the heuristic
\* result: a raising llm_normalize leaves an all-null record
EscalateFailClosed(model_name, model_specs, h, esc, llm, order) ==
    [model |-> model_name, specs |-> model_specs,
     status |-> IF h.ok THEN "ok" ELSE "raised",
     heur |-> h.canonical, escalated |-> esc,
     llm |-> IF esc THEN llm ELSE None,
     canonical |-> IF esc
                   THEN IF llm = RAISE THEN [k \in RecordKeys |-> None]
                        ELSE llm_merge(h.canonical, llm, order)
                   ELSE h.canonical]

\* lines 130-165: the escalation of one model whose heuristic result is h
Escalate(model_name, model_specs, h, esc, llm, order) ==
    [model |-> model_name, specs |-> model_specs,
     status |-> IF h.ok THEN "ok" ELSE "raised",
     heur |-> h.canonical, escalated |-> esc,
     llm |-> IF esc THEN llm ELSE None,
     canonical |-> IF esc /\ llm # RAISE
                   THEN llm_merge(h.canonical, llm, order)
                   ELSE h.canonical]
AfterHeuristics(model_name, model_specs, h, use, llm, order) ==
    The({Escalate(model_name, model_specs, h, esc, llm, order) :
            esc \in {h.ok /\ escalates(use, h.canonical)}})
process_model(model_name, model_specs, use, llm, order) ==
    The({AfterHeuristics(model_name, model_specs, h, use, llm, order) :
            h \in {heuristic_mapping(model_name, model_specs)}})

\* normalize_all, lines 106-165: one model of the sequential loop
normalize_all_model(model_name, model_specs, use, llm, order) ==
    process_model(model_name, model_specs, use, llm, order)
\* normalize_batch.process_model_with_llm: "if mapped_count < 10"
process_model_with_llm(model_name, model_specs, llm, order) ==
    process_model(model_name, model_specs, TRUE, llm, order)
\* normalize_all_batch, lines 190-204: the heuristic-only branch
heuristic_only(model_name, model_specs) ==
    process_model(model_name, model_specs, FALSE, None, <<>>)

(***************************************************************************)
(* The database and the inputs of a pass                                   *)
(***************************************************************************)
\* number of raw documents in the store
MaxDocs == 2

\* table products: s.get(Product, pid)
ProductIds == {1, 2}
ProductName(pid) == IF pid = 1 THEN "Cobolt" ELSE "Pro"

\* a text line "k: v"
KV(k, v) == [colon |-> TRUE, long |-> FALSE, k |-> k, v |-> v]
NoColon == [colon |-> FALSE, long |-> FALSE, k |-> <<"Serial">>, v |-> "SN-7"]
LongLine == [colon |-> TRUE, long |-> TRUE, k |-> <<"Serial">>, v |-> "SN-7"]

Rich9 ==
    << << <<"Wavelength">>, "405 nm" >>, << <<"Output Power">>, "60 mW" >>,
       << <<"Min. Power">>, "60" >>, << <<"RMS Noise">>, "2" >>,
       << <<"Power Stability">>, "2" >>, << <<"M2">>, "2" >>,
       << <<"Beam Diameter">>, "2" >>, << <<"Beam Divergence">>, "2" >>,
       << <<"Polarization">>, "Linear" >> >>

\* the documents a store is drawn from: product, raw_specs, text
DocTemplates ==
    { [product_id |-> 1, text |-> <<>>, raw_specs |->
        << << <<"Wavelength", "LuxX 405-60">>, "405 nm" >>,
           << <<"Power", "LuxX 405-60">>, "60 mW" >>,
           << <<"Wavelength", "OBIS">>, "488 nm" >>,
           << <<"Serial", "405-60">>, "SN-7" >> >>],
      [product_id |-> 1, text |-> <<>>, raw_specs |->
        << << <<"Wavelength", "LuxX 405-60">>, "488 nm" >>,
           << <<"Output Power", "OBIS">>, "1.2.3 mW" >> >>],
      [product_id |-> 1, text |-> <<>>, raw_specs |->
        << << <<"model", "405-60">>, "SN-7" >>,
           << <<"Beam Diameter", "405-60">>, "2" >> >>],
      [product_id |-> 1, text |-> <<NoColon, LongLine>>, raw_specs |-> <<>>],
      [product_id |-> 2, text |-> <<>>, raw_specs |-> Rich9],
      [product_id |-> 2, text |-> <<>>, raw_specs |->
        << << <<"Linewidth">>, "60" >>, << <<"Serial">>, "SN-7" >>,
           << <<"Wavelength">>, "488 nm" >> >>],
      [product_id |-> 2, text |-> <<>>, raw_specs |->
        << << <<"Output Power">>, "1.2.3 mW" >> >>],
      [product_id |-> 2, raw_specs |-> <<>>, text |->
        <<KV(<<"Wavelength">>, "405 nm"), NoColon, KV(<<"model">>, "SN-7")>>] }

\* what llm_normalize does when it is called: it raises (network, quota,
\* malformed JSON, response without choices), or returns the parsed JSON
LLMResults ==
    { RAISE,
      None,
      D(<< <<"wavelength_nm", F(488, 1)>>, <<"m2", S("Linear")>> >>),
      D(<< <<"wavelength_nm", S("488")>>, <<"m2", BIGINT>> >>),
      D(<< <<"output_power_mw_nominal", D(<< <<"value", F(100, 1)>> >>)>>,
           <<"wavelength_nm", None>>, <<"ttl_shutter", B(TRUE)>>,
           <<"vendor_fields", D(<< << <<"Serial">>, S("Linear") >> >>)>> >>),
      D(<< <<"vendor_fields", D(<< << <<"model">>, S("SN-7") >> >>)>> >>) }

\* the orders in which the merge loop can visit the keys of set K
Orders(K) ==
    {q \in [1..Cardinality(K) -> K] : \A i, j \in DOMAIN q : q[i] = q[j] => i = j}

(***************************************************************************)
(* The normalization pass                                                  *)
(***************************************************************************)
\* simple_kv_from_text
RECURSIVE simple_kv_from_text(_)
simple_kv_from_text(text) ==
    IF text = <<>> THEN <<>>
    ELSE LET line == text[Len(text)]
             kv == simple_kv_from_text(SubSeq(text, 1, Len(text) - 1))
         IN IF line.colon /\ ~line.long THEN Put(kv, line.k, line.v) ELSE kv

\* select(RawDocument).order_by(product_id, fetched_at.desc()), one product
RECURSIVE SortDesc(_)
SortDesc(ds) ==
    IF ds = {} THEN <<>>
    ELSE LET d == CHOOSE d \in ds : \A e \in ds : e.fetched_at <= d.fetched_at
         IN <<d>> \o SortDesc(ds \ {d})
DocsOf(docs, pid) ==
    SortDesc({docs[i] : i \in {j \in DOMAIN docs : docs[j].product_id = pid}})

\* for d in docs: if d.raw_specs: merged_raw.update(d.raw_specs)
RECURSIVE MergeSpecs(_, _)
MergeSpecs(docs, merged) ==
    IF docs = <<>> THEN merged
    ELSE The({MergeSpecs(Tail(docs), x) :
                 x \in {Update(merged, docs[1].raw_specs)}})
\* for d in docs: merged_raw.update(simple_kv_from_text(d.text))
RECURSIVE MergeText(_, _)
MergeText(docs, merged) ==
    IF docs = <<>> THEN merged
    ELSE The({MergeText(Tail(docs), x) :
                 x \in {Update(merged, simple_kv_from_text(docs[1].text))}})
\* lines 84-93
MergedRaw(docs) ==
    The({IF x # <<>> THEN x ELSE MergeText(docs, <<>>) :
            x \in {MergeSpecs(docs, <<>>)}})

\* HasData without the check
HasDataAlways(merged_raw) == TRUE

\* "if not merged_raw: continue"
HasData(merged_raw) == merged_raw # <<>>

\* the disambiguator of the running variant
Extract(v, merged_raw) ==
    IF v = "normalize_all" THEN extract_models_from_specs(merged_raw)
    ELSE extract_models_from_specs_batch(merged_raw)

\* lines 98-103
ModelsOf(v, pid, merged_raw) ==
    IF Extract(v, merged_raw) = <<>>
    THEN << <<ProductName(pid), merged_raw>> >>
    ELSE Extract(v, merged_raw)

\* NormalizedSpec(product_id=pid, source_raw_id=docs[0].id, **canonical)
\* snapshot_ts defaults to the time of the insert: 1, the time of the pass
Row(r) ==
    [product_id |-> cur.pid, source_raw_id |-> cur.docs[1].id,
     canonical |-> r.canonical, model |-> r.model, snapshot_ts |-> 1]

\* a row of table normalized_specs that an earlier pass left, at time 0
OldRow ==
    [product_id |-> 2, source_raw_id |-> 0,
     canonical |-> [k \in RecordKeys |->
                      CASE k = "wavelength_nm" -> F(488, 1)
                        [] k = "vendor_fields" ->
                              D(<< << <<"model">>, S("Legacy") >> >>)
                        [] OTHER -> None],
     model |-> "Legacy",
     snapshot_ts |-> 0]

Entry(r, path) ==
    [pid |-> cur.pid, path |-> path, model |-> r.model, specs |-> r.specs,
     status |-> r.status, heur |-> r.heur, escalated |-> r.escalated,
     llm |-> r.llm, canonical |-> r.canonical]

\* the pass has not returned
NoReturn == [kind |-> "none"]

NoCur == [pid |-> 0, docs |-> <<>>, merged_raw |-> <<>>]

RunInit ==
    /\ variant \in {"normalize_all", "normalize_all_batch"}
    /\ use_llm \in BOOLEAN
    /\ \E n \in 0..MaxDocs : \E ts \in [1..n -> DocTemplates] :
         raw_docs = [i \in 1..n |->
                        [id |-> i, fetched_at |-> i,
                         product_id |-> ts[i].product_id,
                         raw_specs |-> ts[i].raw_specs, text |-> ts[i].text]]
    /\ normalized_specs \in {<<>>, <<OldRow>>}
    /\ pc = "start"
    /\ by_pid = <<>>
    /\ cur = NoCur
    /\ models = <<>>
    /\ futures = <<>>
    /\ completed = <<>>
    /\ session = <<>>
    /\ inserted = 0
    /\ ret = NoReturn
    /\ log = <<>>
    /\ pdf_cache = <<>>

NoArg == <<>>
NoOut == [done |-> FALSE]

Init == RunInit /\ arg = NoArg /\ out = NoOut

\* lines 64-76: the query and the grouping by product
Query ==
    /\ pc = "start"
    /\ by_pid' = SelectSeq(<<1, 2>>,
                    LAMBDA p : \E i \in DOMAIN raw_docs : raw_docs[i].product_id = p)
    /\ pc' = "loop"
    /\ UNCHANGED <<arg, out, pdf_cache, variant, use_llm, raw_docs, normalized_specs, cur,
                   models, futures, completed, session, inserted, ret, log>>

\* lines 80-96: product missing or nothing to normalize: continue
SkipProduct ==
    /\ pc = "loop" /\ by_pid # <<>>
    /\ \/ by_pid[1] \notin ProductIds
       \/ ~HasData(MergedRaw(DocsOf(raw_docs, by_pid[1])))
    /\ by_pid' = Tail(by_pid)
    /\ UNCHANGED <<arg, out, pdf_cache, variant, use_llm, raw_docs, normalized_specs, pc,
                   cur, models, futures, completed, session, inserted, ret, log>>

\* lines 80-103: merge the documents and find the models
Entered(docs, merged_raw, ms) ==
    /\ cur' = [pid |-> by_pid[1], docs |-> docs, merged_raw |-> merged_raw]
    /\ models' = ms
    /\ pc' = IF variant = "normalize_all_batch" /\ use_llm /\ Len(ms) > 1
             THEN "submit" ELSE "models"
EnterProduct ==
    /\ pc = "loop" /\ by_pid # <<>>
    /\ by_pid[1] \in ProductIds
    /\ HasData(MergedRaw(DocsOf(raw_docs, by_pid[1])))
    /\ \E docs \in {DocsOf(raw_docs, by_pid[1])} :
         \E merged_raw \in {MergedRaw(docs)} :
            \E ms \in {ModelsOf(variant, by_pid[1], merged_raw)} :
               Entered(docs, merged_raw, ms)
    /\ by_pid' = Tail(by_pid)
    /\ UNCHANGED <<arg, out, pdf_cache, variant, use_llm, raw_docs, normalized_specs,
                   futures, completed, session, inserted, ret, log>>

\* the exception leaves the pass: finally s.close(), nothing is committed
Raised(r, path) ==
    /\ pc' = "aborted"
    /\ session' = <<>>
    /\ ret' = [kind |-> "exception"]
    /\ log' = Append(log, Entry(r, path))
    /\ UNCHANGED <<models, inserted>>

\* s.add(ns); inserted += 1; and on to the next model or product
Added(r, path) ==
    /\ session' = Append(session, Row(r))
    /\ inserted' = inserted + 1
    /\ log' = Append(log, Entry(r, path))
    /\ models' = Tail(models)
    /\ pc' = IF Tail(models) = <<>> THEN "loop" ELSE "models"
    /\ UNCHANGED ret

Finish(r, path) ==
    IF r.status = "raised" THEN Raised(r, path) ELSE Added(r, path)

\* normalize_all, lines 106-174: one iteration of the loop over the models
NormalizeAllModel ==
    /\ pc = "models" /\ variant = "normalize_all" /\ models # <<>>
    /\ \E llm \in LLMResults : \E order \in Orders(Touched(llm)) :
         \E r \in {normalize_all_model(models[1][1], models[1][2], use_llm,
                                        llm, order)} :
            Finish(r, "sequential")
    /\ UNCHANGED <<arg, out, pdf_cache, variant, use_llm, raw_docs, normalized_specs,
                   by_pid, cur, futures, completed>>

\* normalize_all_batch, lines 181-213: one iteration of the sequential loop
BatchSequentialModel ==
    /\ pc = "models" /\ variant = "normalize_all_batch" /\ models # <<>>
    /\ \E llm \in LLMResults : \E order \in Orders(Touched(llm)) :
         \E r \in {IF use_llm
                    THEN process_model_with_llm(models[1][1], models[1][2],
                                                llm, order)
                    ELSE heuristic_only(models[1][1], models[1][2])} :
            Finish(r, "sequential")
    /\ UNCHANGED <<arg, out, pdf_cache, variant, use_llm, raw_docs, normalized_specs,
                   by_pid, cur, futures, completed>>

\* normalize_all_batch, lines 143-154: one worker per model
Submit ==
    /\ pc = "submit"
    /\ futures' = [i \in DOMAIN models |-> [state |-> "running"]]
    /\ completed' = <<>>
    /\ pc' = "workers"
    /\ UNCHANGED <<arg, out, pdf_cache, variant, use_llm, raw_docs, normalized_specs,
                   by_pid, cur, models, session, inserted, ret, log>>

\* a worker runs process_model_with_llm to its end, in any order
WorkerFinish ==
    /\ pc = "workers"
    /\ \E i \in DOMAIN futures :
         /\ futures[i].state = "running"
         /\ \E llm \in LLMResults : \E order \in Orders(Touched(llm)) :
              futures' = [futures EXCEPT ![i] =
                  [state |-> "finished",
                   result |-> process_model_with_llm(models[i][1], models[i][2],
                                                     llm, order)]]
         /\ completed' = Append(completed, i)
    /\ UNCHANGED <<arg, out, pdf_cache, variant, use_llm, raw_docs, normalized_specs, pc,
                   by_pid, cur, models, session, inserted, ret, log>>

\* llm_normalize is called without a timeout: the call of a model that
\* escalates may never return, and the thread that made it stays blocked.
\* normalize_all line 133, normalize_all_batch line 182 (sequential loop)
SequentialCallHangs ==
    /\ pc = "models" /\ models # <<>>
    /\ IF variant = "normalize_all"
       THEN normalize_all_model(models[1][1], models[1][2], use_llm,
                                None, <<>>).escalated
       ELSE use_llm /\ process_model_with_llm(models[1][1], models[1][2],
                                              None, <<>>).escalated
    /\ pc' = "blocked"
    /\ UNCHANGED <<arg, out, pdf_cache, variant, use_llm, raw_docs, normalized_specs,
                   by_pid, cur, models, futures, completed, session, inserted,
                   ret, log>>

\* process_model_with_llm line 51, in a worker of the pool
WorkerCallHangs ==
    /\ pc = "workers"
    /\ \E i \in DOMAIN futures :
         /\ futures[i].state = "running"
         /\ process_model_with_llm(models[i][1], models[i][2],
                                   None, <<>>).escalated
         /\ futures' = [futures EXCEPT ![i] = [state |-> "blocked"]]
    /\ UNCHANGED <<arg, out, pdf_cache, variant, use_llm, raw_docs, normalized_specs, pc,
                   by_pid, cur, models, completed, session, inserted, ret, log>>

\* _, canonical = future.result(): the record is added, or the worker's
\* exception is caught and printed
Collected(i, r) ==
    /\ IF r.status = "ok"
       THEN /\ session' = Append(session, Row(r))
            /\ inserted' = inserted + 1
       ELSE UNCHANGED <<session, inserted>>
    /\ log' = Append(log, Entry(r, "worker"))
    /\ futures' = [futures EXCEPT ![i] = [state |-> "collected"]]
    /\ completed' = Tail(completed)
    /\ pc' = IF \A j \in DOMAIN futures : j # i => futures[j].state = "collected"
             THEN "loop" ELSE "workers"

\* lines 157-178: as_completed hands over the next finished future
Collect ==
    /\ pc = "workers" /\ completed # <<>>
    /\ Collected(completed[1], futures[completed[1]].result)
    /\ UNCHANGED <<arg, out, pdf_cache, variant, use_llm, raw_docs, normalized_specs,
                   by_pid, cur, models, ret>>

\* Commit that replaces the content of the table by the rows of the session
CommitReplacing ==
    /\ pc = "loop" /\ by_pid = <<>>
    /\ normalized_specs' = session
    /\ session' = <<>>
    /\ ret' = [kind |-> "count", n |-> inserted]
    /\ pc' = "done"
    /\ UNCHANGED <<arg, out, pdf_cache, variant, use_llm, raw_docs, by_pid, cur, models,
                   futures, completed, inserted, log>>

\* lines 176-177: s.commit(); return inserted
Commit ==
    /\ pc = "loop" /\ by_pid = <<>>
    /\ normalized_specs' = normalized_specs \o session
    /\ session' = <<>>
    /\ ret' = [kind |-> "count", n |-> inserted]
    /\ pc' = "done"
    /\ UNCHANGED <<arg, out, pdf_cache, variant, use_llm, raw_docs, by_pid, cur, models,
                   futures, completed, inserted, log>>

Next ==
    \/ Query
    \/ SkipProduct
    \/ EnterProduct
    \/ NormalizeAllModel
    \/ BatchSequentialModel
    \/ Submit
    \/ WorkerFinish
    \/ Collect
    \/ Commit
    \/ SequentialCallHangs
    \/ WorkerCallHangs

Spec == Init /\ [][Next]_vars

\* the interpreter and the pool keep running whatever can run
SpecLive == Spec /\ WF_vars(Next)

(***************************************************************************)
(* The disambiguator as a pure function: SpecExtract draws a flat map and  *)
(* applies both copies of extract_models_from_specs to it.                 *)
(***************************************************************************)
\* number of entries of a drawn flat map
MaxKeys == 2

ExtractSpecHalves == {"Wavelength", "Power", "Serial"}
ExtractModelHalves == {"LuxX 405-60", "405-60", "Pro", "Beam 5"}
ExtractKeys ==
    {<<a, b>> : a \in ExtractSpecHalves, b \in ExtractModelHalves}
    \cup {<<b, a>> : a \in ExtractSpecHalves, b \in ExtractModelHalves}
    \cup {<<"Wavelength">>, <<"Rev\\d", "Power">>}
ExtractValues == {"405 nm", "60 mW"}

FlatMaps ==
    UNION {{q \in [1..n -> ExtractKeys \X ExtractValues] :
               \A i, j \in 1..n : q[i][1] = q[j][1] => i = j} : n \in 0..MaxKeys}

ExtractInit ==
    /\ arg \in FlatMaps
    /\ out = NoOut
    /\ variant = "none" /\ use_llm = FALSE /\ raw_docs = <<>>
    /\ normalized_specs = <<>> /\ pc = "pure" /\ by_pid = <<>> /\ cur = NoCur
    /\ models = <<>> /\ futures = <<>> /\ completed = <<>> /\ session = <<>>
    /\ inserted = 0 /\ ret = NoReturn /\ log = <<>>
    /\ pdf_cache = <<>>

ApplyExtract ==
    /\ pc = "pure" /\ ~out.done
    /\ out' = [done |-> TRUE,
               normalize |-> extract_models_from_specs(arg),
               batch |-> extract_models_from_specs_batch(arg)]
    /\ UNCHANGED <<arg, runVars>>

ExtractNext == ApplyExtract

SpecExtract == ExtractInit /\ [][ExtractNext]_vars

(***************************************************************************)
(* The value parser as a pure function: SpecParse draws a canonical key    *)
(* and a value string and applies parse_value_to_unit to them.             *)
(***************************************************************************)
ParseInit ==
    /\ arg \in [key : CANONICAL_SPEC_KEYS, value : ValueStrings]
    /\ out = NoOut
    /\ variant = "none" /\ use_llm = FALSE /\ raw_docs = <<>>
    /\ normalized_specs = <<>> /\ pc = "pure" /\ by_pid = <<>> /\ cur = NoCur
    /\ models = <<>> /\ futures = <<>> /\ completed = <<>> /\ session = <<>>
    /\ inserted = 0 /\ ret = NoReturn /\ log = <<>>
    /\ pdf_cache = <<>>

ApplyParse ==
    /\ pc = "pure" /\ ~out.done
    /\ out' = [done |-> TRUE,
               parsed |-> parse_value_to_unit(arg.key, arg.value)]
    /\ UNCHANGED <<arg, runVars>>

ParseNext == ApplyParse

SpecParse == ParseInit /\ [][ParseNext]_vars

(***************************************************************************)
(* The monthly report as a pure function of table normalized_specs:        *)
(* SpecReport draws the rows the query returns and applies monthly_report. *)
(* The "New Entrants" section reads other tables and no row of this one.   *)
(***************************************************************************)
MaxRows == 3

\* the values of snapshot_ts
Timestamps == 1..3

\* the columns the report compares.  The numbers are whole, so that the
\* double arithmetic of big_change is exact on them.
Reading(power, noise, stability, digital) ==
    [output_power_mw_nominal |-> power, rms_noise_pct |-> noise,
     power_stability_pct |-> stability, modulation_digital_hz |-> digital]
Readings ==
    { Reading(F(100, 1), F(4, 1), F(4, 1), F(100, 1)),
      Reading(F(105, 1), F(5, 1), None, F(150, 1)),
      Reading(F(110, 1), None, F(5, 1), F(200, 1)),
      Reading(F(115, 1), F(4, 1), F(4, 1), None),
      Reading(None, None, None, F(0, 1)),
      Reading(F(0, 1), None, None, F(100, 1)) }

\* rows of NormalizedSpec
SpecRows ==
    { [product_id |-> pid, snapshot_ts |-> ts,
       output_power_mw_nominal |-> r.output_power_mw_nominal,
       rms_noise_pct |-> r.rms_noise_pct,
       power_stability_pct |-> r.power_stability_pct,
       modulation_digital_hz |-> r.modulation_digital_hz] :
         pid \in ProductIds, ts \in Timestamps, r \in Readings }

\* order_by(NormalizedSpec.product_id, NormalizedSpec.snapshot_ts.desc());
\* rows that agree on both come in any order
QueryOrdered(q) ==
    \A i, j \in DOMAIN q :
        i < j => \/ q[i].product_id < q[j].product_id
                 \/ /\ q[i].product_id = q[j].product_id
                    /\ q[i].snapshot_ts >= q[j].snapshot_ts

\* an assignment in place of dict.setdefault: the last value wins
Overwrite(d, k, v) == Put(d, k, v)

\* dict.setdefault
SetDefault(d, k, v) == IF HasKey(d, k) THEN d ELSE Put(d, k, v)

\* the body of "for ns in ns_rows"; st = [latest, prev]
ScanRow(st, ns) ==
    IF ~HasKey(st.latest, ns.product_id)
    THEN [st EXCEPT !.latest = Put(@, ns.product_id, ns)]
    ELSE IF ns.snapshot_ts < Get(st.latest, ns.product_id).snapshot_ts
         THEN [st EXCEPT !.prev = SetDefault(@, ns.product_id, ns)]
         ELSE st
RECURSIVE ScanRows(_, _)
ScanRows(ns_rows, st) ==
    IF ns_rows = <<>> THEN st
    ELSE The({ScanRows(Tail(ns_rows), x) : x \in {ScanRow(st, ns_rows[1])}})

AbsInt(n) == IF n < 0 THEN 0 - n ELSE n

\* big_change with a strict comparison
big_change_strict(a, b, th) ==
    IF a = None \/ b = None \/ b = F(0, 1) THEN FALSE
    ELSE AbsInt(a.n * b.d - b.n * a.d) * th.d > th.n * a.d * AbsInt(b.n)

\* abs(a - b) / abs(b) >= th, on the fractions a, b and th
big_change(a, b, th) ==
    IF a = None \/ b = None \/ b = F(0, 1) THEN FALSE
    ELSE AbsInt(a.n * b.d - b.n * a.d) * th.d >= th.n * a.d * AbsInt(b.n)

\* one entry of changes: the label of the f-string and the values it prints
Change(label, pv, ns, column, th) ==
    IF big_change(ns[column], pv[column], th)
    THEN << [label |-> label, from |-> pv[column], to |-> ns[column]] >>
    ELSE <<>>

\* changes = [] and the four tests, with thresholds 0.10, 0.25, 0.25, 1.0
Changes(ns, pv) ==
    Change("Power", pv, ns, "output_power_mw_nominal", F(1, 10))
    \o Change("RMS noise", pv, ns, "rms_noise_pct", F(1, 4))
    \o Change("Stability", pv, ns, "power_stability_pct", F(1, 4))
    \o Change("Digital mod BW", pv, ns, "modulation_digital_hz", F(1, 1))

\* the body of "for pid, ns in latest.items()": no line without pv, no line
\* without changes
ChangeLine(pid, ns, prev) ==
    IF ~HasKey(prev, pid) THEN <<>>
    ELSE IF Changes(ns, Get(prev, pid)) = <<>> THEN <<>>
    ELSE << [product_id |-> pid, changes |-> Changes(ns, Get(prev, pid))] >>
RECURSIVE ChangeLines(_, _)
ChangeLines(items, prev) ==
    IF items = <<>> THEN <<>>
    ELSE ChangeLine(items[1][1], items[1][2], prev)
         \o ChangeLines(Tail(items), prev)

Reported(st) ==
    [latest |-> st.latest, prev |-> st.prev,
     lines |-> ChangeLines(st.latest, st.prev)]
monthly_report(ns_rows) ==
    The({Reported(st) :
            st \in {ScanRows(ns_rows, [latest |-> <<>>, prev |-> <<>>])}})

ReportInit ==
    /\ arg \in {q \in UNION {[1..n -> SpecRows] : n \in 0..MaxRows} :
                  QueryOrdered(q)}
    /\ out = NoOut
    /\ variant = "none" /\ use_llm = FALSE /\ raw_docs = <<>>
    /\ normalized_specs = <<>> /\ pc = "pure" /\ by_pid = <<>> /\ cur = NoCur
    /\ models = <<>> /\ futures = <<>> /\ completed = <<>> /\ session = <<>>
    /\ inserted = 0 /\ ret = NoReturn /\ log = <<>>
    /\ pdf_cache = <<>>

ApplyReport ==
    /\ pc = "pure" /\ ~out.done
    /\ out' = [done |-> TRUE, report |-> monthly_report(arg)]
    /\ UNCHANGED <<arg, runVars>>

ReportNext == ApplyReport

SpecReport == ReportInit /\ [][ReportNext]_vars

(***************************************************************************)
(* The baseline benchmark as a pure function of the joined rows:           *)
(* SpecBenchmark draws the rows the query returns and applies              *)
(* benchmark_vs_coherent.                                                  *)
(***************************************************************************)
\* the products of the segment, joined with their manufacturer
Segment ==
    { [id |-> 1, name |-> "OBIS", vendor |-> "Coherent"],
      [id |-> 2, name |-> "LuxX", vendor |-> "Omicron"],
      [id |-> 3, name |-> "LBX", vendor |-> "Oxxius"] }
ProductOf(pid) == CHOOSE p \in Segment : p.id = pid

\* m.name.startswith("Coherent")
IsCoherent(name) == name \in {"Coherent"}

\* the columns the benchmark reads
Measured(wavelength, power, noise) ==
    [wavelength_nm |-> wavelength, output_power_mw_nominal |-> power,
     rms_noise_pct |-> noise, power_stability_pct |-> None,
     linewidth_mhz |-> noise]
Measurements ==
    { Measured(F(405, 1), F(49, 1), F(4, 1)),
      Measured(F(405, 1), F(50, 1), None),
      Measured(F(809, 2), F(50, 1), F(5, 1)),
      Measured(F(811, 2), F(150, 1), F(4, 1)),
      Measured(None, F(500, 1), F(5, 1)),
      Measured(F(405, 1), None, None) }

\* rows of the join of NormalizedSpec, Product and Manufacturer
JoinedRows ==
    { [product_id |-> pid, snapshot_ts |-> ts, ns |-> r] :
         pid \in {p.id : p \in Segment}, ts \in 1..2, r \in Measurements }

\* order_by(NormalizedSpec.snapshot_ts.desc())
NewestFirst(q) ==
    \A i, j \in DOMAIN q : i < j => q[i].snapshot_ts >= q[j].snapshot_ts

\* for ns, p, m in rows: if p.id not in latest: latest[p.id] = (ns, p, m)
RECURSIVE LatestOf(_, _)
LatestOf(rows, latest) ==
    IF rows = <<>> THEN latest
    ELSE The({LatestOf(Tail(rows), x) :
                 x \in {SetDefault(latest, rows[1].product_id, rows[1])}})

\* int(round(w)) of a positive fraction: Python rounds halves to even
Round(w) ==
    LET q == w.n \div w.d
        r == w.n % w.d
    IN IF 2 * r < w.d THEN q
       ELSE IF 2 * r > w.d THEN q + 1
       ELSE IF q % 2 = 0 THEN q ELSE q + 1
band_nm(w) == IF w = None THEN None ELSE F(Round(w), 1)

\* mw < bound, on fractions; "-" in a class name stands for the en dash
\* of the source
LessThan(mw, bound) == mw.n < bound * mw.d
pclass(mw) ==
    IF mw = None THEN "unknown"
    ELSE IF LessThan(mw, 50) THEN "<50 mW"
    ELSE IF LessThan(mw, 150) THEN "50-150 mW"
    ELSE IF LessThan(mw, 500) THEN "150-500 mW"
    ELSE ">=500 mW"

BucketKey(row) ==
    <<band_nm(row.ns.wavelength_nm), pclass(row.ns.output_power_mw_nominal)>>

\* buckets[key].append(...), for the values of latest in insertion order
RECURSIVE Buckets(_, _)
Buckets(items, buckets) ==
    IF items = <<>> THEN buckets
    ELSE The({Buckets(Tail(items), x) :
                 x \in {Put(buckets, BucketKey(items[1][2]),
                            (IF HasKey(buckets, BucketKey(items[1][2]))
                             THEN Get(buckets, BucketKey(items[1][2]))
                             ELSE <<>>) \o <<items[1][2]>>)}})

\* the order of Python strings on the power classes
ClassRank(power_class) ==
    CASE power_class = "150-500 mW" -> 1
      [] power_class = "50-150 mW" -> 2
      [] power_class = "<50 mW" -> 3
      [] power_class = ">=500 mW" -> 4
      [] power_class = "unknown" -> 5
\* the order of tuples on two bucket keys whose bands compare
KeyLess(a, b) ==
    IF a[1] = b[1] THEN ClassRank(a[2]) < ClassRank(b[2])
    ELSE a[1].n < b[1].n
\* sorted(buckets.items()) raises TypeError when it compares None with an int
Unorderable(buckets) ==
    \E i, j \in DOMAIN buckets :
        buckets[i][1][1] = None /\ buckets[j][1][1] # None
RECURSIVE SortedItems(_)
SortedItems(items) ==
    IF items = {} THEN <<>>
    ELSE LET least == CHOOSE x \in items :
                         \A y \in items \ {x} : KeyLess(x[1], y[1])
         IN <<least>> \o SortedItems(items \ {least})

\* a - b, or None when either is None
Delta(a, b) ==
    IF a = None \/ b = None THEN None
    ELSE F(a.n * b.d - b.n * a.d, a.d * b.d)

\* one dict of rows_out
ComparisonRow(key, row, base) ==
    [wl_nm |-> key[1], power_class |-> key[2],
     vendor |-> ProductOf(row.product_id).vendor,
     model |-> ProductOf(row.product_id).name,
     noise |-> Delta(row.ns.rms_noise_pct, base.ns.rms_noise_pct),
     stability |-> Delta(row.ns.power_stability_pct,
                         base.ns.power_stability_pct),
     linewidth |-> Delta(row.ns.linewidth_mhz, base.ns.linewidth_mhz)]

\* the body of "for (wl, pc), items in sorted(buckets.items())"
BucketRows(key, items) ==
    LET coh == SelectSeq(items,
                   LAMBDA t : IsCoherent(ProductOf(t.product_id).vendor))
        comp == SelectSeq(items,
                   LAMBDA t : ~IsCoherent(ProductOf(t.product_id).vendor))
    IN IF coh = <<>> \/ comp = <<>> THEN <<>>
       ELSE [i \in DOMAIN comp |-> ComparisonRow(key, comp[i], coh[1])]
RECURSIVE RowsOut(_)
RowsOut(sorted) ==
    IF sorted = <<>> THEN <<>>
    ELSE BucketRows(sorted[1][1], sorted[1][2]) \o RowsOut(Tail(sorted))

Benchmarked(buckets) ==
    IF Unorderable(buckets) THEN RAISE
    ELSE L(RowsOut(SortedItems({buckets[i] : i \in DOMAIN buckets})))
benchmark_vs_coherent(rows) ==
    The({Benchmarked(b) :
            b \in {Buckets(LatestOf(rows, <<>>), <<>>)}})

BenchmarkInit ==
    /\ arg \in {q \in UNION {[1..n -> JoinedRows] : n \in 0..MaxRows} :
                  NewestFirst(q)}
    /\ out = NoOut
    /\ variant = "none" /\ use_llm = FALSE /\ raw_docs = <<>>
    /\ normalized_specs = <<>> /\ pc = "pure" /\ by_pid = <<>> /\ cur = NoCur
    /\ models = <<>> /\ futures = <<>> /\ completed = <<>> /\ session = <<>>
    /\ inserted = 0 /\ ret = NoReturn /\ log = <<>>
    /\ pdf_cache = <<>>

ApplyBenchmark ==
    /\ pc = "pure" /\ ~out.done
    /\ out' = [done |-> TRUE, rows_out |-> benchmark_vs_coherent(arg)]
    /\ UNCHANGED <<arg, runVars>>

BenchmarkNext == ApplyBenchmark

SpecBenchmark == BenchmarkInit /\ [][BenchmarkNext]_vars

(***************************************************************************)
(* The three paths that turn text lines into key/value pairs, as pure      *)
(* functions of a text: SpecLines draws a text and applies them.  A line   *)
(* is a sequence of tokens; a token is a word, a numeral, a blank or a     *)
(* punctuation mark.                                                       *)
(***************************************************************************)
MaxLines == 2

\* "Note(130)" and "Note(210)" stand for words of 130 and 210 letters
TextLines ==
    { <<"Polarization Ratio", ":", " ", ">", "50", ":", "1">>,
      <<"Extinction ratio", " ", "50", ":", "1">>,
      <<"Contrast", " ", "50", " ", ":", " ", "1">>,
      <<"Wavelength", ":", " ", "405", " ", "nm">>,
      <<"OBIS">>,
      <<"Mode", ":", " ", "-">>,
      <<"Mode", ":", " ", "N/A">>,
      <<"Mode", ":">>,
      <<":", " ", "50">>,
      <<"*", "*", "Mode", "*", "*", ":", " ", "Gaussian", " ", " ", "cw">>,
      <<"Note(130)", ":", " ", "50">>,
      <<"Note(210)", ":", " ", "50">>,
      <<>> }

\* len() of a token
CharLen(tok) ==
    CASE tok = "Note(130)" -> 130
      [] tok = "Note(210)" -> 210
      [] tok = "Polarization Ratio" -> 18
      [] tok = "Extinction ratio" -> 16
      [] tok = "Wavelength" -> 10
      [] tok \in {"Contrast", "Gaussian"} -> 8
      [] tok \in {"OBIS", "Mode"} -> 4
      [] tok \in {"405", "N/A"} -> 3
      [] tok \in {"50", "nm", "cw"} -> 2
      [] OTHER -> 1
RECURSIVE LineLen(_)
LineLen(q) == IF q = <<>> THEN 0 ELSE CharLen(q[1]) + LineLen(Tail(q))

\* \d+ and \s on tokens
IsDigits(tok) == tok \in {"50", "1", "405"}
IsSpace(tok) == tok = " "

\* str.strip()
RECURSIVE LStrip(_)
LStrip(q) == IF q # <<>> /\ IsSpace(q[1]) THEN LStrip(Tail(q)) ELSE q
RECURSIVE RStrip(_)
RStrip(q) ==
    IF q # <<>> /\ IsSpace(q[Len(q)])
    THEN RStrip(SubSeq(q, 1, Len(q) - 1)) ELSE q
Strip(q) == RStrip(LStrip(q))

\* ":" in line; line.split(":", 1)
HasColon(line) == \E i \in DOMAIN line : line[i] = ":"
FirstColon(line) ==
    CHOOSE i \in DOMAIN line :
        line[i] = ":" /\ \A j \in 1..(i - 1) : line[j] # ":"
Before(line) == SubSeq(line, 1, FirstColon(line) - 1)
After(line) == SubSeq(line, FirstColon(line) + 1, Len(line))

\* .replace('*', '').replace('#', '')
Unstarred(q) == SelectSeq(q, LAMBDA tok : tok \notin {"*", "#"})

\* a string value of a map, as its tokens
Txt(q) == [t |-> "text", v |-> q]

\* normalize.py: one line as simple_kv_from_text reads it
SplitLine(line) ==
    [colon |-> HasColon(line), long |-> LineLen(line) >= 120,
     k |-> IF HasColon(line) THEN Strip(Before(line)) ELSE <<>>,
     v |-> IF HasColon(line) THEN Txt(Strip(After(line))) ELSE Txt(<<>>)]
SplitLines(text) == [i \in DOMAIN text |-> SplitLine(text[i])]

\* coherent.py lines 33-42: the line fallback of the scraper
RECURSIVE line_fallback(_, _)
line_fallback(lines, raw_specs) ==
    IF lines = <<>> THEN raw_specs
    ELSE LET line == lines[1]
         IN IF HasColon(line) /\ LineLen(line) < 200
               /\ Unstarred(Strip(Before(line))) # <<>>
               /\ Strip(After(line)) # <<>>
            THEN line_fallback(Tail(lines),
                    Put(raw_specs, Unstarred(Strip(Before(line))),
                        Txt(Strip(After(line)))))
            ELSE line_fallback(Tail(lines), raw_specs)

\* q starts with \s*:\s*\d+
ColonThenDigits(q) ==
    /\ LStrip(q) # <<>> /\ LStrip(q)[1] = ":"
    /\ LStrip(Tail(LStrip(q))) # <<>>
    /\ IsDigits(LStrip(Tail(LStrip(q)))[1])
\* re.search(r'\d+\s*:\s*\d+', line)
HasRatio(line) ==
    \E i \in DOMAIN line :
        IsDigits(line[i]) /\ ColonThenDigits(SubSeq(line, i + 1, Len(line)))
\* q matches [<>]?\s*\d+\s*:\s*\d+.* after leading blanks
RECURSIVE SkipDigits(_)
SkipDigits(q) == IF q # <<>> /\ IsDigits(q[1]) THEN SkipDigits(Tail(q)) ELSE q
StartsWithRatio(q) ==
    LET a == LStrip(q)
        b == IF a # <<>> /\ a[1] \in {"<", ">"} THEN LStrip(Tail(a)) ELSE a
    IN b # <<>> /\ IsDigits(b[1]) /\ ColonThenDigits(SkipDigits(b))

\* re.sub(r'\s+', ' ', value)
RECURSIVE Collapse(_)
Collapse(q) ==
    IF Len(q) < 2 THEN q
    ELSE IF IsSpace(q[1]) /\ IsSpace(q[2]) THEN Collapse(Tail(q))
    ELSE <<q[1]>> \o Collapse(Tail(q))
\* _parse_technical_value
parse_technical_value(value) ==
    IF value = <<>> THEN value
    ELSE IF HasRatio(value) THEN value
    ELSE IF \E i \in DOMAIN value : value[i] \in {"<", ">", "-"} THEN value
    ELSE Strip(Collapse(value))

\* lines 676-695: the branch for a line that holds ":" and no "|"
ColonLine(line, specs) ==
    IF HasRatio(line)
    THEN IF /\ Before(line) # <<>> /\ StartsWithRatio(After(line))
            /\ Unstarred(Strip(Before(line))) # <<>>
            /\ LineLen(Unstarred(Strip(Before(line)))) < 100
         THEN Put(specs, Unstarred(Strip(Before(line))),
                  Txt(Strip(After(line))))
         ELSE specs
    ELSE IF /\ Unstarred(Strip(Before(line))) # <<>>
            /\ Strip(After(line)) # <<>>
            /\ LineLen(Unstarred(Strip(Before(line)))) < 100
         THEN Put(specs, Unstarred(Strip(Before(line))),
                  Txt(parse_technical_value(Strip(After(line)))))
         ELSE specs
RECURSIVE ColonLines(_, _)
ColonLines(lines, specs) ==
    IF lines = <<>> THEN specs
    ELSE The({ColonLines(Tail(lines), x) :
                 x \in {IF Strip(lines[1]) # <<>> /\ HasColon(lines[1])
                        THEN ColonLine(lines[1], specs) ELSE specs}})

\* _extract_pattern_specs: of its five patterns only the wavelength pattern
\* matches in a text of TextLines, once in every line that reads
\* "Wavelength: 405 nm"
WavelengthMatches(text) ==
    SelectSeq(text, LAMBDA line :
        line = <<"Wavelength", ":", " ", "405", " ", "nm">>)
extract_pattern_specs(text) ==
    IF WavelengthMatches(text) = <<>> THEN <<>>
    ELSE << << <<"wavelengths">>,
               L([i \in DOMAIN WavelengthMatches(text) |->
                     Txt(<<"405", "nm">>)]) >> >>

\* _extract_from_pdf_text, for a text without "|"
extract_from_pdf_text(text) ==
    Update(ColonLines(text, <<>>), extract_pattern_specs(text))

LinesInit ==
    /\ arg \in UNION {[1..n -> TextLines] : n \in 0..MaxLines}
    /\ out = NoOut
    /\ variant = "none" /\ use_llm = FALSE /\ raw_docs = <<>>
    /\ normalized_specs = <<>> /\ pc = "pure" /\ by_pid = <<>> /\ cur = NoCur
    /\ models = <<>> /\ futures = <<>> /\ completed = <<>> /\ session = <<>>
    /\ inserted = 0 /\ ret = NoReturn /\ log = <<>>
    /\ pdf_cache = <<>>

ApplyLines ==
    /\ pc = "pure" /\ ~out.done
    /\ out' = [done |-> TRUE,
               pdf |-> extract_from_pdf_text(arg),
               normalize |-> simple_kv_from_text(SplitLines(arg)),
               scraper |-> line_fallback(arg, <<>>)]
    /\ UNCHANGED <<arg, runVars>>

LinesNext == ApplyLines

SpecLines == LinesInit /\ [][LinesNext]_vars

(***************************************************************************)
(* The HTML extraction as a pure function of a document: SpecHtml draws a  *)
(* document and applies extract_all_specs.  A document is a sequence of    *)
(* elements, each showing one label and one value in one of four layouts:  *)
(*   "tr"     <table><tr><td>label</td><td>value</td></tr></table>         *)
(*   "li"     <ul><li>label: value</li></ul>                               *)
(*   "dl"     <dl><dt>label</dt><dd>value</dd></dl>                        *)
(*   "class"  <span class="spec-label">label</span>                        *)
(*            <span class="spec-value">value</span>                        *)
(***************************************************************************)
MaxElems == 2

Layouts == {"tr", "li", "dl", "class"}
Shown ==
    { <<"Beam Diameter", "0.7 mm">>, <<"Wavelength", "488 nm">>,
      <<"RMS Noise", "<0.2%">>, <<"Polarization", "100:1">>,
      <<"Noise", "-">>, <<"Interfaces", "USB">> }
Elements ==
    { [layout |-> l, label |-> p[1], value |-> p[2]] :
         l \in Layouts, p \in Shown }

\* _extract_with_pandas: read_html(header=[0, 1]) takes the first two rows
\* of a table as its header, so a table of one row has no data row, and a
\* document without table raises; both give no entry
extract_with_pandas(html) == <<>>

\* _extract_from_concatenated_table: no text of Shown holds a product of the
\* LuxX or LBX pattern
extract_from_concatenated_table(text) == <<>>

\* _parse_value returns its argument on every path
parse_value(value) == S(value)

\* the body of "for row in rows" for a row of two td cells in a table without
\* thead and without th: headers = []
TableRow(spec_name, value, specs) ==
    IF /\ spec_name \in {"Wavelength"}
       /\ extract_from_concatenated_table(spec_name) # <<>>
    THEN Update(specs, extract_from_concatenated_table(spec_name))
    ELSE IF value \notin {"", "-", "N/A"}
         THEN Put(specs, spec_name, parse_value(value))
         ELSE specs
\* _extract_with_beautifulsoup: soup.find_all('table')
RECURSIVE extract_with_beautifulsoup(_, _)
extract_with_beautifulsoup(html, specs) ==
    IF html = <<>> THEN specs
    ELSE The({extract_with_beautifulsoup(Tail(html), x) :
                 x \in {IF html[1].layout = "tr"
                        THEN TableRow(html[1].label, html[1].value, specs)
                        ELSE specs}})

\* SpecPattern.WAVELENGTH.findall and SpecPattern.RATIO.findall on the text
\* of one element; POWER and BEAM_QUALITY match no text of Shown
WavelengthsIn(e) == IF e.value = "488 nm" THEN <<S("488nm")>> ELSE <<>>
RatiosIn(e) == IF e.value = "100:1" THEN <<S("100:1")>> ELSE <<>>
RECURSIVE AllWavelengths(_)
AllWavelengths(html) ==
    IF html = <<>> THEN <<>>
    ELSE WavelengthsIn(html[1]) \o AllWavelengths(Tail(html))
RECURSIVE AllRatios(_)
AllRatios(html) ==
    IF html = <<>> THEN <<>> ELSE RatiosIn(html[1]) \o AllRatios(Tail(html))
\* _extract_from_text: soup.get_text(' ', strip=True) holds the text of every
\* element, whatever its layout
extract_from_text(html) ==
    (IF AllWavelengths(html) # <<>>
     THEN << <<"wavelengths_nm", L(AllWavelengths(html))>> >>
     ELSE <<>>)
    \o (IF AllRatios(html) # <<>>
        THEN << <<"ratios", L(AllRatios(html))>> >>
        ELSE <<>>)

\* extract_all_specs
extract_all_specs(html) ==
    Update(Update(extract_with_pandas(html),
                  extract_with_beautifulsoup(html, <<>>)),
           extract_from_text(html))

HtmlInit ==
    /\ arg \in UNION {[1..n -> Elements] : n \in 0..MaxElems}
    /\ out = NoOut
    /\ variant = "none" /\ use_llm = FALSE /\ raw_docs = <<>>
    /\ normalized_specs = <<>> /\ pc = "pure" /\ by_pid = <<>> /\ cur = NoCur
    /\ models = <<>> /\ futures = <<>> /\ completed = <<>> /\ session = <<>>
    /\ inserted = 0 /\ ret = NoReturn /\ log = <<>>
    /\ pdf_cache = <<>>

ApplyHtml ==
    /\ pc = "pure" /\ ~out.done
    /\ out' = [done |-> TRUE, specs |-> extract_all_specs(arg)]
    /\ UNCHANGED <<arg, runVars>>

HtmlNext == ApplyHtml

SpecHtml == HtmlInit /\ [][HtmlNext]_vars

(***************************************************************************)
(* The document cache of a scraper: SpecCache constructs a scraper over a  *)
(* database and a cache directory and calls should_skip_document,          *)
(* cache_pdf and get_cached_pdf in any order.  arg holds the constructor's *)
(* arguments, ret the last call and what it returned.                      *)
(***************************************************************************)
MaxStored == 2

Bytes(b) == [t |-> "bytes", v |-> b]

Urls ==
    { "https://www.coherent.com/resources/datasheet/lasers/obis-family-ds.pdf",
      "https://cdn.coherent.com/mirror/obis-family-ds.pdf",
      "https://www.coherent.com/lasers/cw-solid-state/obis-ls-lx" }

Hashes == {"sha-1", "sha-2"}

Contents == {"", "%PDF-1.4 a", "%PDF-1.4 b"}

\* os.path.basename(urlparse(url).path)
Basename(url) ==
    CASE url = "https://www.coherent.com/resources/datasheet/lasers/obis-family-ds.pdf"
           -> "obis-family-ds.pdf"
      [] url = "https://cdn.coherent.com/mirror/obis-family-ds.pdf"
           -> "obis-family-ds.pdf"
      [] url = "https://www.coherent.com/lasers/cw-solid-state/obis-ls-lx"
           -> "obis-ls-lx"

EndsWithPdf(filename) == filename = "obis-family-ds.pdf"

\* hashlib.md5(url.encode()).hexdigest()[:8] + ".pdf"
Md5Name(url) ==
    CASE url = "https://www.coherent.com/resources/datasheet/lasers/obis-family-ds.pdf"
           -> "224d3d92.pdf"
      [] url = "https://cdn.coherent.com/mirror/obis-family-ds.pdf"
           -> "3920e04f.pdf"
      [] url = "https://www.coherent.com/lasers/cw-solid-state/obis-ls-lx"
           -> "0909d64c.pdf"

\* self.vendor().lower() with ' ' -> '_' and parentheses removed
vendor_dir == "coherent"

cache_dir == <<"data", "pdf_cache">>

get_pdf_cache_path(url) ==
    LET filename == IF EndsWithPdf(Basename(url)) THEN Basename(url)
                    ELSE Md5Name(url)
    IN  cache_dir \o <<vendor_dir, filename>>

StoredDoc(url, hash, n) ==
    [url |-> url, content_hash |-> hash, text |-> S("text"),
     file_path |-> IF EndsWithPdf(Basename(url))
                   THEN S("file") ELSE None,
     fetched_at |-> n]

StoredDocs ==
    { StoredDoc("https://www.coherent.com/resources/datasheet/lasers/obis-family-ds.pdf",
                "sha-1", 1),
      StoredDoc("https://www.coherent.com/resources/datasheet/lasers/obis-family-ds.pdf",
                "sha-1", 2),
      StoredDoc("https://www.coherent.com/resources/datasheet/lasers/obis-family-ds.pdf",
                "sha-2", 3),
      StoredDoc("https://www.coherent.com/lasers/cw-solid-state/obis-ls-lx",
                "sha-1", 4) }

\* .order_by(RawDocument.fetched_at.desc()).first()
NewestDoc(docs) ==
    docs[CHOOSE i \in DOMAIN docs :
            \A j \in DOMAIN docs : docs[j].fetched_at <= docs[i].fetched_at]

should_skip_document(url, current_hash, force_refresh, docs) ==
    IF force_refresh THEN <<FALSE, None, None>>
    ELSE LET found == SelectSeq(docs, LAMBDA d :
                          d.url = url /\ d.content_hash = current_hash)
         IN  IF found # <<>>
             THEN <<TRUE, NewestDoc(found).text, NewestDoc(found).file_path>>
             ELSE <<FALSE, None, None>>

get_cached_pdf_unforced(url, force_refresh, files) ==
    IF HasKey(files, get_pdf_cache_path(url))
    THEN Bytes(Get(files, get_pdf_cache_path(url)))
    ELSE None

get_cached_pdf(url, force_refresh, files) ==
    IF force_refresh THEN None
    ELSE IF HasKey(files, get_pdf_cache_path(url))
         THEN Bytes(Get(files, get_pdf_cache_path(url)))
         ELSE None

CacheInit ==
    /\ arg \in [targets : {<<>>}, force_refresh : BOOLEAN]
    /\ out = NoOut
    /\ variant = "none" /\ use_llm = FALSE
    /\ raw_docs \in UNION {[1..n -> StoredDocs] : n \in 0..MaxStored}
    /\ normalized_specs = <<>>
    /\ pc = "scraper"
    /\ by_pid = <<>> /\ cur = NoCur /\ models = <<>>
    /\ futures = <<>> /\ completed = <<>> /\ session = <<>>
    /\ inserted = 0 /\ ret = NoReturn /\ log = <<>>
    /\ pdf_cache \in {<<>>} \cup
           {<< <<get_pdf_cache_path(u), c>> >> : u \in Urls, c \in Contents}

cacheFixed == <<arg, out, variant, use_llm, raw_docs, normalized_specs, pc,
                by_pid, cur, models, futures, completed, session, inserted,
                log>>

ShouldSkipDocument ==
    /\ pc = "scraper"
    /\ \E url \in Urls, current_hash \in Hashes :
          ret' = [kind |-> "should_skip_document", url |-> url,
                  current_hash |-> current_hash,
                  result |-> should_skip_document(url, current_hash,
                                 arg.force_refresh, raw_docs)]
    /\ UNCHANGED <<cacheFixed, pdf_cache>>

CachePdf ==
    /\ pc = "scraper"
    /\ \E url \in Urls, content \in Contents :
          /\ pdf_cache' = Put(pdf_cache, get_pdf_cache_path(url), content)
          /\ ret' = [kind |-> "cache_pdf", url |-> url, content |-> content,
                     result |-> get_pdf_cache_path(url)]
    /\ UNCHANGED cacheFixed

GetCachedPdf ==
    /\ pc = "scraper"
    /\ \E url \in Urls :
          ret' = [kind |-> "get_cached_pdf", url |-> url,
                  result |-> get_cached_pdf(url, arg.force_refresh,
                                            pdf_cache)]
    /\ UNCHANGED <<cacheFixed, pdf_cache>>

CacheNext == ShouldSkipDocument \/ CachePdf \/ GetCachedPdf

SpecCache == CacheInit /\ [][CacheNext]_vars

(***************************************************************************)
(* Normalization passes followed by the report: SpecDelta runs whole       *)
(* passes of normalize_all over a catalog of two products and lets         *)
(* monthly_report read the table after any of them.  A pass inserts one    *)
(* row per model; snapshot_ts is the value of datetime.utcnow() when the   *)
(* row is inserted, so the stamps of one pass never decrease in insertion  *)
(* order and may be equal, and the stamps of a pass are later than those   *)
(* of the pass before it.  log holds, for every row id, the pass that      *)
(* inserted it.                                                            *)
(***************************************************************************)
\* the latest value of the clock
MaxClock == 4

\* product id and model name of the rows of a pass, in insertion order:
\* product 1 splits into two models, product 2 is one model (its name)
DeltaCatalog == << <<1, "405-60">>, <<1, "488-100">>, <<2, "OBIS LX">> >>

\* output power of a model; a revised datasheet (level 1) raises it
DeltaPower(model_name, level) ==
    CASE model_name = "405-60"  -> F(60 + 10 * level, 1)
      [] model_name = "488-100" -> F(100 + 15 * level, 1)
      [] model_name = "OBIS LX" -> F(50 + 10 * level, 1)

DeltaRow(id, pid, model_name, ts, level) ==
    [id |-> id, product_id |-> pid, snapshot_ts |-> ts,
     output_power_mw_nominal |-> DeltaPower(model_name, level),
     rms_noise_pct |-> None, power_stability_pct |-> None,
     modulation_digital_hz |-> None,
     vendor_fields |-> D(<< << <<"model">>, S(model_name) >> >>)]

\* datetime.utcnow() now: later than every stamp of the table
LastStamp(table) ==
    IF table = <<>> THEN 0
    ELSE table[Len(table)].snapshot_ts

\* the stamps of the rows of one pass
Stamps(after) ==
    {ts \in [DOMAIN DeltaCatalog -> (after + 1)..MaxClock] :
        \A i, j \in DOMAIN ts : i < j => ts[i] <= ts[j]}

LastPass(history) ==
    IF history = <<>> THEN 0 ELSE history[Len(history)].pass

\* the rows the query can return first
FirstRows(rows) ==
    {r \in rows : \A o \in rows :
        \/ r.product_id < o.product_id
        \/ r.product_id = o.product_id /\ r.snapshot_ts >= o.snapshot_ts}

\* every result of select(NormalizedSpec).order_by(product_id,
\* snapshot_ts.desc()): rows that agree on both come in any order
RECURSIVE QueryResults(_)
QueryResults(rows) ==
    IF rows = {} THEN {<<>>}
    ELSE UNION {{<<r>> \o q : q \in QueryResults(rows \ {r})} :
                   r \in FirstRows(rows)}

DeltaInit ==
    /\ arg = <<>>
    /\ out = NoOut
    /\ variant = "normalize_all" /\ use_llm = FALSE /\ raw_docs = <<>>
    /\ normalized_specs = <<>> /\ pc = "delta" /\ by_pid = <<>> /\ cur = NoCur
    /\ models = <<>> /\ futures = <<>> /\ completed = <<>> /\ session = <<>>
    /\ inserted = 0 /\ ret = NoReturn /\ log = <<>>
    /\ pdf_cache = <<>>

deltaFixed == <<arg, variant, use_llm, raw_docs, pc, by_pid, cur, models,
                futures, completed, session, pdf_cache>>

\* one whole call of normalize_all
NormalizePass ==
    /\ pc = "delta"
    /\ LastStamp(normalized_specs) < MaxClock
    /\ \E ts \in Stamps(LastStamp(normalized_specs)), level \in 0..1 :
          /\ normalized_specs' = normalized_specs \o
                [i \in DOMAIN DeltaCatalog |->
                    DeltaRow(Len(normalized_specs) + i, DeltaCatalog[i][1],
                             DeltaCatalog[i][2], ts[i], level)]
          /\ log' = log \o
                [i \in DOMAIN DeltaCatalog |->
                    [id |-> Len(normalized_specs) + i,
                     pass |-> LastPass(log) + 1]]
    /\ inserted' = Len(DeltaCatalog)
    /\ ret' = [kind |-> "count", n |-> Len(DeltaCatalog)]
    /\ UNCHANGED <<deltaFixed, out>>

\* one whole call of monthly_report
MonthlyReport ==
    /\ pc = "delta"
    /\ \E ns_rows \in QueryResults({normalized_specs[i] :
                                       i \in DOMAIN normalized_specs}) :
          out' = [done |-> TRUE, report |-> monthly_report(ns_rows)]
    /\ UNCHANGED <<deltaFixed, normalized_specs, inserted, ret, log>>

DeltaNext == NormalizePass \/ MonthlyReport

SpecDelta == DeltaInit /\ [][DeltaNext]_vars

(***************************************************************************)
(* Storing fetched documents: SpecStore starts from an empty table         *)
(* raw_documents and calls store_document, each call followed by a flush   *)
(* of the session, so that every call sees the rows of the calls before    *)
(* it.  log is the history of the calls, ret the last call and the value   *)
(* it returned.                                                            *)
(***************************************************************************)
\* number of calls
MaxCalls == 4

\* targets: two products list the same family datasheet, product 1 also
\* has a page of its own
StoreTargets ==
    { [product_id |-> 1, url |-> "https://lumencor.com/products/celesta"],
      [product_id |-> 1, url |-> "https://lumencor.com/ds/light-engines.pdf"],
      [product_id |-> 2, url |-> "https://lumencor.com/ds/light-engines.pdf"] }

\* the content of a fetched document determines hash and text
Fetched(hash) ==
    [status |-> 200, content_type |-> "html", text |-> S(hash),
     content_hash |-> hash, file_path |-> None, raw_specs |-> None]

\* session.query(RawDocument).filter_by(url=..., content_hash=...).first()
SameHash(docs, target, content_hash) ==
    SelectSeq(docs, LAMBDA d :
        d.url = target.url /\ d.content_hash = content_hash)

\* session.query(RawDocument).filter_by(product_id=..., url=...).first():
\* the positions of the rows that match
SameTarget(docs, target) ==
    {i \in DOMAIN docs : /\ docs[i].product_id = target.product_id
                         /\ docs[i].url = target.url}

NewDocument(id, target, f, now) ==
    [id |-> id, product_id |-> target.product_id, url |-> target.url,
     http_status |-> f.status, content_type |-> f.content_type,
     text |-> f.text, raw_specs |-> f.raw_specs,
     content_hash |-> f.content_hash, file_path |-> f.file_path,
     fetched_at |-> now]

UpdatedDocument(d, f, now) ==
    [d EXCEPT !.http_status = f.status, !.content_type = f.content_type,
              !.text = f.text, !.raw_specs = f.raw_specs,
              !.content_hash = f.content_hash, !.file_path = f.file_path,
              !.fetched_at = now]

\* store_document and the flush after it: the table and the value returned
store_document(docs, target, f, now) ==
    IF SameHash(docs, target, f.content_hash) # <<>>
    THEN [docs |-> docs, result |-> FALSE]
    ELSE IF SameTarget(docs, target) # {}
    THEN [docs |-> [docs EXCEPT ![The(SameTarget(docs, target))] =
                       UpdatedDocument(@, f, now)],
          result |-> TRUE]
    ELSE [docs |-> Append(docs, NewDocument(Len(docs) + 1, target, f, now)),
          result |-> TRUE]

StoreInit ==
    /\ arg = <<>>
    /\ out = NoOut
    /\ variant = "none" /\ use_llm = FALSE /\ raw_docs = <<>>
    /\ normalized_specs = <<>> /\ pc = "store" /\ by_pid = <<>> /\ cur = NoCur
    /\ models = <<>> /\ futures = <<>> /\ completed = <<>> /\ session = <<>>
    /\ inserted = 0 /\ ret = NoReturn /\ log = <<>>
    /\ pdf_cache = <<>>

storeFixed == <<arg, out, variant, use_llm, normalized_specs, pc, by_pid,
                cur, models, futures, completed, session, inserted,
                pdf_cache>>

Stored(target, content_hash, r) ==
    /\ raw_docs' = r.docs
    /\ ret' = [kind |-> "store_document", target |-> target,
               content_hash |-> content_hash, result |-> r.result]
    /\ log' = Append(log, ret')

StoreDocument ==
    /\ pc = "store"
    /\ Len(log) < MaxCalls
    /\ \E target \in StoreTargets, content_hash \in Hashes :
          Stored(target, content_hash,
                 store_document(raw_docs, target, Fetched(content_hash),
                                Len(log) + 1))
    /\ UNCHANGED storeFixed

StoreNext == StoreDocument

SpecStore == StoreInit /\ [][StoreNext]_vars

(***************************************************************************)
(* The pipeline graphs: SpecPipeline builds the graph of graph.py or of    *)
(* graph_unified.py (variant) and runs it from its entry point.  pc is the *)
(* node to run next, out.state the GraphState the nodes pass on, log the   *)
(* history of the nodes run.  A stage called by a node either returns a    *)
(* value or raises an Exception.                                           *)
(***************************************************************************)
\* what a stage can raise
Exceptions == {"OperationalError", "TypeError"}

\* a Python int
I(n) == [t |-> "int", v |-> n]

\* what the stages can return
StageCounts == {0, 2}
ReportTexts == {"", "# Monthly Laser CI Report"}
BenchRows == {<<>>, <<[vendor |-> "Omicron", wavelength_nm |-> 488]>>}

\* GraphState() and UnifiedGraphState(): the defaults of the fields
GraphState(unified, llm) ==
    IF unified
    THEN [scrapers_run |-> I(0), products_discovered |-> I(0),
          normalized |-> I(0),
          report_md |-> None, bench_rows |-> <<>>, errors |-> <<>>,
          use_llm |-> llm]
    ELSE [crawled |-> None, normalized |-> None, report_md |-> None,
          bench_rows |-> <<>>, errors |-> <<>>, use_llm |-> llm]

\* set_entry_point and add_edge of build_graph and build_unified_graph
EntryPoint == "bootstrap"
Edge(graph, node) ==
    IF graph = "graph_unified"
    THEN CASE node = "bootstrap"      -> "discover_crawl"
           [] node = "discover_crawl" -> "normalize"
           [] node = "normalize"      -> "report"
           [] node = "report"         -> "benchmark"
           [] node = "benchmark"      -> "summary"
           [] node = "summary"        -> "END"
    ELSE CASE node = "bootstrap"      -> "crawl"
           [] node = "crawl"          -> "normalize"
           [] node = "normalize"      -> "report"
           [] node = "report"         -> "bench"
           [] node = "bench"          -> "END"

\* the text before ': {e}' in the f-string of the node's except clause
ErrorPrefix(graph, node) ==
    IF graph = "graph" /\ node = "bootstrap" THEN "bootstrap/seed" ELSE node

\* an except clause that records nothing
RecordNothing(st, graph, node, e) == st

\* state.errors.append(f"<node>: {e}")
RecordError(st, graph, node, e) ==
    [st EXCEPT !.errors =
        Append(@, [prefix |-> ErrorPrefix(graph, node), e |-> e])]

PipelineInit ==
    /\ arg = <<>>
    /\ variant \in {"graph", "graph_unified"}
    /\ use_llm \in BOOLEAN
    /\ out = [done |-> FALSE,
              state |-> GraphState(variant = "graph_unified", use_llm)]
    /\ raw_docs = <<>> /\ normalized_specs = <<>>
    /\ pc = EntryPoint
    /\ by_pid = <<>> /\ cur = NoCur /\ models = <<>>
    /\ futures = <<>> /\ completed = <<>> /\ session = <<>>
    /\ inserted = 0 /\ ret = NoReturn /\ log = <<>>
    /\ pdf_cache = <<>>

pipelineFixed == <<arg, variant, use_llm, raw_docs, normalized_specs, by_pid,
                   cur, models, futures, completed, session, inserted, ret,
                   pdf_cache>>

\* the node returns st: the graph follows the node's edge
Returned(node, st, raised) ==
    /\ out' = [done |-> Edge(variant, node) = "END", state |-> st]
    /\ pc' = Edge(variant, node)
    /\ log' = Append(log, [node |-> node, raised |-> raised])
    /\ UNCHANGED pipelineFixed

\* a node whose try block only calls the stage
Caught(node) ==
    \E e \in Exceptions :
        Returned(node, RecordError(out.state, variant, node, e), TRUE)

NodeBootstrap ==
    /\ pc = "bootstrap"
    /\ \/ Returned("bootstrap", out.state, FALSE)
       \/ Caught("bootstrap")

\* graph.node_crawl
NodeCrawl ==
    /\ pc = "crawl"
    /\ \/ Returned("crawl", [out.state EXCEPT !.crawled = I(1)], FALSE)
       \/ Caught("crawl")

\* graph_unified.node_discover_and_crawl: the count of the products can
\* raise after scrapers_run is set
NodeDiscoverAndCrawl ==
    /\ pc = "discover_crawl"
    /\ \/ \E n \in StageCounts, p \in StageCounts :
             Returned("discover_crawl",
                      [out.state EXCEPT !.scrapers_run = I(n),
                                        !.products_discovered = I(p)],
                      FALSE)
       \/ Caught("discover_crawl")
       \/ \E n \in StageCounts, e \in Exceptions :
             Returned("discover_crawl",
                      RecordError([out.state EXCEPT !.scrapers_run = I(n)],
                                  variant, "discover_crawl", e), TRUE)

\* node_normalize and node_normalize_batch
NodeNormalize ==
    /\ pc = "normalize"
    /\ \/ \E n \in StageCounts :
             Returned("normalize", [out.state EXCEPT !.normalized = I(n)],
                      FALSE)
       \/ Caught("normalize")

\* node_report of both graphs; the unified one also writes the report to a
\* file, which can raise after report_md is set
NodeReport ==
    /\ pc = "report"
    /\ \/ \E md \in ReportTexts :
             Returned("report", [out.state EXCEPT !.report_md = S(md)], FALSE)
       \/ Caught("report")
       \/ /\ variant = "graph_unified"
          /\ \E e \in Exceptions :
                Returned("report",
                         RecordError([out.state EXCEPT !.report_md =
                                         S("# Monthly Laser CI Report")],
                                     variant, "report", e), TRUE)

\* graph.node_bench and graph_unified.node_benchmark
NodeBench ==
    /\ pc \in {"bench", "benchmark"}
    /\ \/ \E rows \in BenchRows :
             Returned(pc, [out.state EXCEPT !.bench_rows = rows], FALSE)
       \/ Caught(pc)

\* graph_unified.node_summary prints the state
NodeSummary ==
    /\ pc = "summary"
    /\ Returned("summary", out.state, FALSE)

PipelineNext ==
    \/ NodeBootstrap
    \/ NodeCrawl
    \/ NodeDiscoverAndCrawl
    \/ NodeNormalize
    \/ NodeReport
    \/ NodeBench
    \/ NodeSummary

SpecPipeline == PipelineInit /\ [][PipelineNext]_vars

\* invoke() runs the compiled graph until END: a node that can run, runs
SpecPipelineLive == SpecPipeline /\ WF_vars(PipelineNext)

(***************************************************************************)
(* Properties                                                              *)
(***************************************************************************)
Ended == pc \in {"done", "aborted"}
\* the records the pass created so far, and the committed ones
Created == SelectSeq(normalized_specs \o session, LAMBDA r : r.snapshot_ts = 1)
RowsOf(rows, pid, model_name) ==
    {i \in DOMAIN rows : rows[i].product_id = pid /\ rows[i].model = model_name}
\* number of canonical spec fields (vendor_fields aside) that are populated
Populated(canonical) ==
    Cardinality({k \in CANONICAL_SPEC_KEYS : canonical[k] # None})

\* C1: when llm_normalize raises for a model, the record of the model is the
\* heuristic-only record of the same flat spec map (canonical fields and
\* vendor_fields), in normalize_all and in process_model_with_llm.
C1_FailOpen ==
    \A i \in DOMAIN log :
        (log[i].status = "ok" /\ log[i].escalated /\ log[i].llm = RAISE)
        => /\ log[i].canonical =
                heuristic_only(log[i].model, log[i].specs).canonical
           /\ \A j \in RowsOf(Created, log[i].pid, log[i].model) :
                Created[j].canonical =
                    heuristic_only(log[i].model, log[i].specs).canonical

\* a committed pass in which a worker's llm_normalize raised for a model
\* that has a heuristic value
C1_Witness ==
    /\ pc = "done"
    /\ \E i \in DOMAIN log :
         /\ log[i].status = "ok" /\ log[i].escalated /\ log[i].llm = RAISE
         /\ log[i].path = "worker"
         /\ Populated(log[i].canonical) > 0
         /\ RowsOf(normalized_specs, log[i].pid, log[i].model) # {}

\* C2: at the end of a normalize_all_batch pass with use_llm, every model
\* whose worker returned a result has exactly one persisted record, whatever
\* failed in other workers or other products.
C2_NoLostWorkerResult ==
    (Ended /\ variant = "normalize_all_batch" /\ use_llm)
    => \A i \in DOMAIN log :
          (log[i].path = "worker" /\ log[i].status = "ok")
          => Cardinality(RowsOf(normalized_specs, log[i].pid, log[i].model)) = 1

\* C3: a failure while normalizing one model never aborts normalize_all: the
\* pass returns a count and the records of the other models are persisted.
C3_NeverAborts ==
    variant = "normalize_all"
    => /\ pc # "aborted"
       /\ pc = "done"
          => \A i \in DOMAIN log :
                log[i].status = "ok"
                => RowsOf(normalized_specs, log[i].pid, log[i].model) # {}

Harmless(llm) ==
    /\ llm.t = "dict"
    /\ \A j \in DOMAIN llm.v : llm.v[j][2] # BIGINT

Contribution(docs, d) ==
    IF \E i \in DOMAIN docs : docs[i].raw_specs # <<>> THEN d.raw_specs
    ELSE simple_kv_from_text(d.text)

\* C5: for a key that documents of the product supply, the merged flat map
\* holds the value of the latest-fetched document that supplies it.
C5_LastWriteWins ==
    cur.pid # 0
    => \A k \in Keys(cur.merged_raw) :
          \A i \in DOMAIN cur.docs :
             (/\ HasKey(Contribution(cur.docs, cur.docs[i]), k)
              /\ \A j \in DOMAIN cur.docs :
                    HasKey(Contribution(cur.docs, cur.docs[j]), k)
                    => cur.docs[j].fetched_at <= cur.docs[i].fetched_at)
             => Get(cur.merged_raw, k) =
                   Get(Contribution(cur.docs, cur.docs[i]), k)

\* whether the pass was asked to use the LLM for the model of entry e
LLMEnabled(e) == use_llm

\* C6: escalation is attempted for a model exactly when LLM use is enabled
\* and fewer than 10 of the 20 canonical spec fields (vendor_fields not
\* counted) were populated by the heuristics.
C6_EscalationThreshold ==
    \A i \in DOMAIN log :
        log[i].status = "ok"
        => (log[i].escalated
              <=> (LLMEnabled(log[i]) /\ Populated(log[i].heur) < SUFFICIENT))

\* no document of the product carries raw_specs or a key:value line
NoData(pid) ==
    \A i \in DOMAIN raw_docs :
        raw_docs[i].product_id = pid
        => /\ raw_docs[i].raw_specs = <<>>
           /\ \A j \in DOMAIN raw_docs[i].text :
                 ~(raw_docs[i].text[j].colon /\ ~raw_docs[i].text[j].long)

\* C7: a product whose merged flat map is empty gets no record, and no
\* record is built from an empty spec sub-map.
C7_NoDataSkip ==
    /\ \A i \in DOMAIN Created : ~NoData(Created[i].product_id)
    /\ \A i \in DOMAIN log : log[i].specs # <<>> /\ ~NoData(log[i].pid)

\* a committed pass over a store in which one product has documents without
\* any data and another product got a record
C7_Witness ==
    /\ pc = "done"
    /\ \E i \in DOMAIN raw_docs : NoData(raw_docs[i].product_id)
    /\ Created # <<>>

\* the reading of a composite key that the claim describes: one half holds a
\* word of the spec vocabulary, the other a digit or a brand token
AcceptedModel(m) == HasDigit(m) \/ HasModelPattern(m)
SpecFirst(key) == Len(key) = 2 /\ HasSpecWord(key[1]) /\ AcceptedModel(key[2])
ModelFirst(key) == Len(key) = 2 /\ HasSpecWord(key[2]) /\ AcceptedModel(key[1])
ClaimedModel(key) == IF SpecFirst(key) THEN key[2] ELSE key[1]
ClaimedSpec(key) == IF SpecFirst(key) THEN <<key[1]>> ELSE <<key[2]>>
\* every key has exactly one such reading and no (model, spec) occurs twice
InClaimedForm(m) ==
    /\ m # <<>>
    /\ \A i \in DOMAIN m : SpecFirst(m[i][1]) # ModelFirst(m[i][1])
    /\ \A i, j \in DOMAIN m :
          (/\ ClaimedModel(m[i][1]) = ClaimedModel(m[j][1])
           /\ ClaimedSpec(m[i][1]) = ClaimedSpec(m[j][1])) => i = j
\* one group per distinct model half, holding the spec halves seen with it
GroupedByModel(g, m) ==
    /\ Keys(g) = {ClaimedModel(m[i][1]) : i \in DOMAIN m}
    /\ \A i \in DOMAIN m :
          /\ HasKey(g, ClaimedModel(m[i][1]))
          /\ HasKey(Get(g, ClaimedModel(m[i][1])), ClaimedSpec(m[i][1]))
          /\ Get(Get(g, ClaimedModel(m[i][1])), ClaimedSpec(m[i][1])) = m[i][2]
    /\ \A x \in DOMAIN g :
          Keys(g[x][2]) =
             {ClaimedSpec(m[i][1]) :
                 i \in {j \in DOMAIN m : ClaimedModel(m[j][1]) = g[x][1]}}

\* C8: for a flat map of keys '<spec>_<model>' or '<model>_<spec>' (spec half
\* with a vocabulary word, model half with a digit or a brand token) each
\* copy of the disambiguator returns exactly one group per distinct model
\* half, mapping every spec half that occurred with the model to its value.
C8_ModelSplitting ==
    (out.done /\ InClaimedForm(arg))
    => /\ GroupedByModel(out.normalize, arg)
       /\ GroupedByModel(out.batch, arg)

\* C9: at the end of a pass, a product with a non-empty merged flat map in
\* which the disambiguator finds no group has exactly one record, built from
\* the whole map under the product's name; a product with groups has no
\* whole-map record.
C9_SingleModelFallback ==
    Ended
    => \A pid \in ProductIds :
          HasData(MergedRaw(DocsOf(raw_docs, pid)))
          => IF Extract(variant, MergedRaw(DocsOf(raw_docs, pid))) = <<>>
             THEN /\ Cardinality({i \in DOMAIN normalized_specs :
                         /\ normalized_specs[i].product_id = pid
                         /\ normalized_specs[i].snapshot_ts = 1}) = 1
                  /\ \A i \in DOMAIN normalized_specs :
                        (/\ normalized_specs[i].product_id = pid
                         /\ normalized_specs[i].snapshot_ts = 1)
                        => normalized_specs[i].model = ProductName(pid)
                  /\ \E i \in DOMAIN log :
                        /\ log[i].pid = pid /\ log[i].status = "ok"
                        /\ log[i].specs = MergedRaw(DocsOf(raw_docs, pid))
             ELSE \A i \in DOMAIN log :
                     log[i].pid = pid
                     => log[i].specs # MergedRaw(DocsOf(raw_docs, pid))

\* C10: every entry of a model's sub-map whose name matches no canonical key
\* is in the record's vendor_fields under that name with that value.
C10_MissesKept ==
    \A i \in DOMAIN log :
        log[i].status = "ok"
        => \A j \in DOMAIN log[i].specs :
              canonical_key(log[i].specs[j][1]) = "None"
              => /\ HasKey(log[i].canonical["vendor_fields"].v, log[i].specs[j][1])
                 /\ Get(log[i].canonical["vendor_fields"].v, log[i].specs[j][1])
                       = S(log[i].specs[j][2])

\* C11: parse_value_to_unit returns a value or null for every canonical key
\* and every input string; it never raises.
C11_ParseNeverRaises == out.done => out.parsed # RAISE

\* the canonical fields that hold a number with a unit, and per field the
\* units the documentation converts, with the factor mul/div to the field's
\* own unit
UnitFields ==
    {"wavelength_nm", "output_power_mw_nominal", "output_power_mw_min",
     "rms_noise_pct", "power_stability_pct", "linewidth_mhz", "linewidth_nm",
     "beam_diameter_mm", "beam_divergence_mrad", "modulation_analog_hz",
     "modulation_digital_hz", "fiber_mfd_um", "warmup_time_min"}
DocumentedScale(key, unit) ==
    CASE key = "wavelength_nm" /\ unit = "nm" -> <<1, 1>>
      [] key \in {"output_power_mw_nominal", "output_power_mw_min"}
         /\ unit = "mW" -> <<1, 1>>
      [] key \in {"output_power_mw_nominal", "output_power_mw_min"}
         /\ unit = "W" -> <<1000, 1>>
      [] key \in {"rms_noise_pct", "power_stability_pct"} /\ unit = "%"
           -> <<1, 1>>
      [] key = "linewidth_mhz" /\ unit = "MHz" -> <<1, 1>>
      [] key = "linewidth_nm" /\ unit = "nm" -> <<1, 1>>
      [] key = "beam_diameter_mm" /\ unit = "mm" -> <<1, 1>>
      [] key = "beam_divergence_mrad" /\ unit = "mrad" -> <<1, 1>>
      [] key \in {"modulation_analog_hz", "modulation_digital_hz"}
         /\ unit = "Hz" -> <<1, 1>>
      [] key \in {"modulation_analog_hz", "modulation_digital_hz"}
         /\ unit = "kHz" -> <<1000, 1>>
      [] key \in {"modulation_analog_hz", "modulation_digital_hz"}
         /\ unit = "MHz" -> <<1000000, 1>>
      [] key = "fiber_mfd_um" /\ unit = "(mu)m" -> <<1, 1>>
      [] key = "warmup_time_min" /\ unit = "min" -> <<1, 1>>
      [] key = "warmup_time_min" /\ unit = "s" -> <<1, 60>>
      [] OTHER -> <<>>

\* C12: a number that the heuristic parser stores in a unit-carrying field
\* is the value in the field's documented unit: the numeral of a bare number,
\* or the numeral rescaled by the documented factor of its unit; a value in
\* any other unit is not stored as a number.
C12_UnitScale ==
    (out.done /\ arg.key \in UnitFields /\ out.parsed.t = "float")
    => \/ /\ Tok(arg.value).unit = ""
          /\ out.parsed = Float(Tok(arg.value).num)
       \/ /\ DocumentedScale(arg.key, Tok(arg.value).unit) # <<>>
          /\ out.parsed =
               Scale(Float(Tok(arg.value).num),
                     DocumentedScale(arg.key, Tok(arg.value).unit)[1],
                     DocumentedScale(arg.key, Tok(arg.value).unit)[2])

\* the canonical fields that hold a number, and the boolean ones
NumericFields ==
    CANONICAL_SPEC_KEYS
       \ {"polarization", "interfaces", "dimensions_mm", "ttl_shutter",
          "fiber_output"}
BooleanFields == {"ttl_shutter", "fiber_output"}

\* C13: after an LLM response was merged into a record, every numeric
\* canonical field of the record is null or a float and the boolean fields
\* are null or boolean.
C13_NumericCoercion ==
    \A i \in DOMAIN log :
        (log[i].status = "ok" /\ log[i].escalated /\ log[i].llm.t = "dict")
        => /\ \A k \in NumericFields :
                 log[i].canonical[k].t \in {"none", "float"}
           /\ \A k \in BooleanFields :
                 log[i].canonical[k].t \in {"none", "bool"}

\* an escalation call of the running pass is blocked for ever
Blocked ==
    \/ pc = "blocked"
    \/ \E i \in DOMAIN futures : futures[i].state = "blocked"

\* C14: when the escalation call of a model never returns, the pass still
\* finishes eventually.
C14_HangingCallDoesNotBlock == Blocked ~> (pc = "done")

\* the rows of the table that were there before the pass
Earlier(rows) == SelectSeq(rows, LAMBDA r : r.snapshot_ts = 0)

\* C15: a pass only appends to table normalized_specs: no step changes or
\* removes a row that is there, and the count the pass returns is the number
\* of rows it added.
C15_AppendOnly ==
    /\ [][/\ Len(normalized_specs') >= Len(normalized_specs)
          /\ SubSeq(normalized_specs', 1, Len(normalized_specs))
                = normalized_specs]_vars
    /\ [](pc = "done"
          => ret = [kind |-> "count",
                    n |-> Len(normalized_specs)
                             - Len(Earlier(normalized_specs))])
\* a pass that found an earlier row has committed rows of its own
C15_Witness ==
    /\ pc = "done"
    /\ Earlier(normalized_specs) = <<OldRow>>
    /\ Len(normalized_specs) >= 3
    /\ ret.n = 2

\* the entries the merge took from document d: its raw_specs, or the pairs of
\* its text when no document of the product has raw_specs
EntriesOf(d, docs) ==
    IF MergeSpecs(docs, <<>>) # <<>> THEN d.raw_specs
    ELSE simple_kv_from_text(d.text)
\* document d gave the flat map at least one of its entries
Contributed(d, docs) ==
    \E e \in {EntriesOf(d, docs)} : \E m \in {MergedRaw(docs)} :
        \E i \in DOMAIN e : HasKey(m, e[i][1]) /\ Get(m, e[i][1]) = e[i][2]

\* C16: the source_raw_id of every record of the pass names a raw document
\* of the record's own product, and that document gave at least one entry to
\* the flat map the record was built from.
C16_SourceContributed ==
    \A i \in DOMAIN normalized_specs :
        normalized_specs[i].snapshot_ts = 1
        => \E j \in DOMAIN raw_docs :
              /\ raw_docs[j].id = normalized_specs[i].source_raw_id
              /\ raw_docs[j].product_id = normalized_specs[i].product_id
              /\ Contributed(raw_docs[j],
                             DocsOf(raw_docs, normalized_specs[i].product_id))

\* C17: every record of the pass has vendor_fields, and its entry 'model' is
\* the name of the model the record was built for.
C17_ModelMarker ==
    \A i \in DOMAIN normalized_specs :
        normalized_specs[i].snapshot_ts = 1
        => LET vf == normalized_specs[i].canonical["vendor_fields"]
           IN /\ vf.t = "dict"
              /\ HasKey(vf.v, <<"model">>)
              /\ Get(vf.v, <<"model">>) = S(normalized_specs[i].model)

\* the rows of product pid that the query returned
RowsOfProduct(pid) == {arg[i] : i \in {j \in DOMAIN arg : arg[j].product_id = pid}}
\* the change line of product pid names a change with this label
ReportedChange(pid, label) ==
    \E i \in DOMAIN out.report.lines :
        /\ out.report.lines[i].product_id = pid
        /\ \E j \in DOMAIN out.report.lines[i].changes :
              out.report.lines[i].changes[j].label = label
\* product pid has a latest and a previous record
Compared(pid) ==
    HasKey(out.report.latest, pid) /\ HasKey(out.report.prev, pid)

\* C18: a power change is reported for a product exactly when its latest and
\* previous nominal powers are both known, the previous one is not 0, and
\* they differ by at least 10 % of the previous one.
C18_PowerThreshold ==
    out.done =>
        \A pid \in ProductIds :
            ReportedChange(pid, "Power")
            <=> /\ Compared(pid)
                /\ LET a == Get(out.report.latest, pid).output_power_mw_nominal
                       b == Get(out.report.prev, pid).output_power_mw_nominal
                   IN /\ a # None /\ b # None /\ b.n # 0
                      /\ 10 * AbsInt(a.n * b.d - b.n * a.d)
                            >= a.d * AbsInt(b.n)
\* a product went from 100 mW to 110 mW, and the report names the change
C18_Witness ==
    /\ out.done
    /\ Compared(1)
    /\ Get(out.report.prev, 1).output_power_mw_nominal = F(100, 1)
    /\ Get(out.report.latest, 1).output_power_mw_nominal = F(110, 1)
    /\ ReportedChange(1, "Power")

\* C19: when the digital modulation bandwidth of the latest record of a
\* product is greater than that of its previous record, the report names the
\* change, however small the increase.
C19_AnyBandwidthIncrease ==
    out.done =>
        \A pid \in ProductIds :
            Compared(pid) =>
                LET a == Get(out.report.latest, pid).modulation_digital_hz
                    b == Get(out.report.prev, pid).modulation_digital_hz
                IN (a # None /\ b # None /\ a.n * b.d > b.n * a.d)
                   => ReportedChange(pid, "Digital mod BW")

\* C20: the latest record of a product has the greatest snapshot_ts of its
\* rows; the previous record has the greatest snapshot_ts strictly below
\* that; a product whose rows all carry one timestamp has no previous record
\* and no change line.
C20_LatestAndPrevious ==
    out.done =>
        \A pid \in ProductIds :
            LET R == RowsOfProduct(pid)
                Older == {r \in R : \E q \in R : r.snapshot_ts < q.snapshot_ts}
            IN /\ HasKey(out.report.latest, pid) <=> R # {}
               /\ R # {} =>
                     /\ Get(out.report.latest, pid) \in R
                     /\ \A r \in R : r.snapshot_ts
                           <= Get(out.report.latest, pid).snapshot_ts
               /\ HasKey(out.report.prev, pid) <=> Older # {}
               /\ Older # {} =>
                     /\ Get(out.report.prev, pid) \in Older
                     /\ \A r \in Older : r.snapshot_ts
                           <= Get(out.report.prev, pid).snapshot_ts
               /\ Older = {} =>
                     \A i \in DOMAIN out.report.lines :
                         out.report.lines[i].product_id # pid
\* a product with rows at three timestamps, whose middle row is the previous
C20_Witness ==
    /\ out.done
    /\ {r.snapshot_ts : r \in RowsOfProduct(1)} = Timestamps
    /\ Get(out.report.latest, 1).snapshot_ts = 3
    /\ Get(out.report.prev, 1).snapshot_ts = 2

\* the latest record of every product of the segment that has one
LatestRecords == LatestOf(arg, <<>>)
\* the bucket the claim gives a record: the nearest whole nm and the class
NearestNm(w, band) ==
    IF w = None THEN band = None
    ELSE band # None /\ 2 * AbsInt(w.n - band.n * w.d) <= w.d
ClaimedClass(mw) ==
    CASE mw = None -> "unknown"
      [] mw # None /\ mw.n < 50 * mw.d -> "<50 mW"
      [] mw # None /\ mw.n >= 50 * mw.d /\ mw.n < 150 * mw.d -> "50-150 mW"
      [] mw # None /\ mw.n >= 150 * mw.d /\ mw.n < 500 * mw.d -> "150-500 mW"
      [] OTHER -> ">=500 mW"
SameBucket(r, q) ==
    /\ ClaimedClass(r.ns.output_power_mw_nominal)
          = ClaimedClass(q.ns.output_power_mw_nominal)
    /\ \E band \in {None} \cup {F(n, 1) : n \in 404..406} :
          NearestNm(r.ns.wavelength_nm, band)
          /\ NearestNm(q.ns.wavelength_nm, band)
          /\ band_nm(r.ns.wavelength_nm) = band
          /\ band_nm(q.ns.wavelength_nm) = band
\* product pid is of another vendor and shares its bucket with a baseline
\* product
Benchmarkable(pid) ==
    /\ HasKey(LatestRecords, pid)
    /\ ~IsCoherent(ProductOf(pid).vendor)
    /\ \E b \in Segment :
          /\ IsCoherent(b.vendor) /\ HasKey(LatestRecords, b.id)
          /\ SameBucket(Get(LatestRecords, pid), Get(LatestRecords, b.id))

\* C21: the benchmark returns exactly one comparison row for every
\* other-vendor product whose bucket (wavelength rounded to the nearest nm,
\* power class) also holds a baseline-vendor product, and no other row.
C21_BenchmarkRows ==
    out.done =>
        /\ out.rows_out.t = "list"
        /\ \A p \in Segment :
              Cardinality({i \in DOMAIN out.rows_out.v :
                              out.rows_out.v[i].model = p.name})
                 = IF Benchmarkable(p.id) THEN 1 ELSE 0

\* the colon at position c of the line stands between the two numerals of a
\* ratio
RatioColon(line, c) ==
    /\ line[c] = ":"
    /\ RStrip(SubSeq(line, 1, c - 1)) # <<>>
    /\ IsDigits(RStrip(SubSeq(line, 1, c - 1))
                   [Len(RStrip(SubSeq(line, 1, c - 1)))])
    /\ LStrip(SubSeq(line, c + 1, Len(line))) # <<>>
    /\ IsDigits(LStrip(SubSeq(line, c + 1, Len(line)))[1])
\* map d holds the entry that splitting the line at its first colon gives
SplitEntry(d, line) ==
    /\ HasKey(d, Strip(Before(line)))
    /\ Get(d, Strip(Before(line))) = Txt(Strip(After(line)))
\* no entry of map d comes from a split at the colon of a ratio, and the
\* line "Polarization Ratio: >50:1" gives its key the whole ratio
RatioKept(d) ==
    /\ \A i \in DOMAIN arg :
          (HasColon(arg[i]) /\ RatioColon(arg[i], FirstColon(arg[i])))
          => ~SplitEntry(d, arg[i])
    /\ (\E i \in DOMAIN arg :
           arg[i] = <<"Polarization Ratio", ":", " ", ">", "50", ":", "1">>)
       => /\ HasKey(d, <<"Polarization Ratio">>)
          /\ Get(d, <<"Polarization Ratio">>) = Txt(<<">", "50", ":", "1">>)

\* C22: in the PDF text extraction, in simple_kv_from_text and in the line
\* fallback of the scraper, no key/value pair comes from splitting a line at
\* the colon of a ratio, and "Polarization Ratio: >50:1" yields the key
\* "Polarization Ratio" with the value ">50:1".
C22_RatioNotSplit ==
    out.done =>
        RatioKept(out.pdf) /\ RatioKept(out.normalize) /\ RatioKept(out.scraper)

\* the placeholder tokens as values of a map
Placeholders == {Txt(<<"-">>), Txt(<<"N/A">>), Txt(<<>>)}
\* the strings that value x of a map holds
StringsOf(x) == IF x.t = "list" THEN {x.v[i] : i \in DOMAIN x.v} ELSE {x}

\* C23: the map that the extraction of PDF text returns holds no value equal
\* to a placeholder token "-", "N/A" or the empty string.
C23_NoPlaceholderValue ==
    out.done =>
        \A i \in DOMAIN out.pdf : StringsOf(out.pdf[i][2]) \cap Placeholders = {}

\* the key contains the label, letter case aside
ContainsLabel(key, label) ==
    \/ key = label
    \/ <<label, key>> \in {<<"Wavelength", "wavelengths_nm">>,
                           <<"Noise", "RMS Noise">>}

\* C24: every label that an HTML document shows as the first cell of a table
\* row, in a "label: value" list item, in a dt/dd pair or in a label/value
\* class pair is contained in a key of the map that extract_all_specs
\* returns (a label shown with a placeholder value aside).
C24_EveryLayoutCovered ==
    out.done =>
        \A i \in DOMAIN arg :
            arg[i].value # "-"
            => \E key \in Keys(out.specs) : ContainsLabel(key, arg[i].label)

\* the values <operator><number>[<unit>] of the universe, and each without
\* its operator
Unprefixed(v) ==
    CASE v = "<0.25%" -> "0.25%"
      [] v = "(>=)50 mW" -> "50 mW"
      [] v \in {"<2", "< 2"} -> "2"
      [] v = "<5 kHz" -> "5 kHz"
      [] v = "(<=)90 s" -> "90 s"
      [] v = ">6 (mu)m" -> "6 (mu)m"
      [] v = "<2 W" -> "2 W"
      [] v = "<0.5 nm" -> "0.5 nm"
      [] v = ">2 mm" -> "2 mm"
      [] v = "<5 min" -> "5 min"
      [] OTHER -> v
HasOperator(v) == Unprefixed(v) # v

\* C25: for a numeric canonical key, parse_value_to_unit returns for a value
\* with a leading <, >, at-most or at-least sign what it returns for the
\* value without the sign; "<0.25%" gives 0.25 for rms_noise_pct and
\* "(>=)50 mW" gives 50 for output_power_mw_nominal.
C25_OperatorStripped ==
    (out.done /\ arg.key \in NumericFields /\ HasOperator(arg.value))
    => /\ out.parsed = parse_value_to_unit(arg.key, Unprefixed(arg.value))
       /\ (arg.key = "rms_noise_pct" /\ arg.value = "<0.25%")
          => out.parsed = F(1, 4)
       /\ (arg.key = "output_power_mw_nominal" /\ arg.value = "(>=)50 mW")
          => out.parsed = F(50, 1)
\* "<2" was parsed as a beam quality factor
C25_Witness ==
    /\ out.done
    /\ arg = [key |-> "m2", value |-> "<2"]
    /\ out.parsed = F(2, 1)

\* C26: force refresh bypasses the cache.  On a scraper created with
\* force_refresh every call of should_skip_document returns
\* (False, None, None), whatever the database holds, and every call of
\* get_cached_pdf returns None, whatever the cache directory holds; without
\* force_refresh, get_cached_pdf(url) called right after
\* cache_pdf(url, content) returns exactly content.
C26_ForceRefreshBypasses ==
    [][ /\ (arg.force_refresh /\ ret'.kind = "should_skip_document")
            => ret'.result = <<FALSE, None, None>>
        /\ (arg.force_refresh /\ ret'.kind = "get_cached_pdf")
            => ret'.result = None
        /\ (/\ ~arg.force_refresh
            /\ ret.kind = "cache_pdf"
            /\ ret'.kind = "get_cached_pdf"
            /\ ret'.url = ret.url)
            => ret'.result = Bytes(ret.content) ]_vars

\* A forced scraper has asked for a url whose file is in the cache
\* directory, over a database that holds documents, and got None.
C26_Witness ==
    /\ arg.force_refresh
    /\ raw_docs # <<>>
    /\ ret.kind = "get_cached_pdf"
    /\ HasKey(pdf_cache, get_pdf_cache_path(ret.url))
    /\ ret.result = None

\* C27: the two copies of the model disambiguator agree.  For every flat
\* map, extract_models_from_specs of normalize_batch returns the same model
\* groups as extract_models_from_specs of normalize, in particular for a
\* model half that contains a digit but no brand token.
C27_CopiesAgree ==
    out.done => out.batch = out.normalize

PassOf(id) == log[CHOOSE i \in DOMAIN log : log[i].id = id].pass

ModelMarker(ns) == Get(ns.vendor_fields.v, <<"model">>)

\* the product has a change line whose two records are of different models
\* or of the same pass
Miscompared(pid) ==
    /\ \E i \in DOMAIN out.report.lines :
          out.report.lines[i].product_id = pid
    /\ \/ ModelMarker(Get(out.report.latest, pid))
            # ModelMarker(Get(out.report.prev, pid))
       \/ PassOf(Get(out.report.latest, pid).id)
            = PassOf(Get(out.report.prev, pid).id)

\* C28: every change line of the delta report compares two records of the
\* same model.  For a product whose normalization pass produced one record
\* per model, the latest and the previous record picked for that product
\* have the same vendor_fields model marker and come from different passes.
C28_SameModelCompared ==
    out.done => \A pid \in Keys(out.report.latest) : ~Miscompared(pid)

Holds(docs, pid, url, hash) ==
    \E i \in DOMAIN docs : /\ docs[i].product_id = pid
                           /\ docs[i].url = url
                           /\ docs[i].content_hash = hash

OnePerTarget(docs) ==
    \A i, j \in DOMAIN docs :
        (docs[i].product_id = docs[j].product_id /\ docs[i].url = docs[j].url)
            => i = j

\* the call just made found the url stored with the same hash
Unchanged(call) ==
    \E i \in DOMAIN raw_docs : /\ raw_docs[i].url = call.target.url
                               /\ raw_docs[i].content_hash = call.content_hash

\* the call just made found a row of its target, with another hash
Changed(call) ==
    /\ ~Unchanged(call)
    /\ \E i \in DOMAIN raw_docs :
          /\ raw_docs[i].product_id = call.target.product_id
          /\ raw_docs[i].url = call.target.url

\* the table after the call is the table before it with one row rewritten
InPlace(call) ==
    /\ Len(raw_docs') = Len(raw_docs)
    /\ \E i \in DOMAIN raw_docs :
          /\ raw_docs[i].product_id = call.target.product_id
          /\ raw_docs[i].url = call.target.url
          /\ raw_docs'[i].id = raw_docs[i].id
          /\ raw_docs'[i].content_hash = call.content_hash
          /\ \A j \in DOMAIN raw_docs : j # i => raw_docs'[j] = raw_docs[j]

\* C29: after any sequence of store_document calls, each flushed before the
\* next, from an empty store there is at most one RawDocument per
\* (product_id, url); after a call for target (product, url) with content
\* hash h a RawDocument with that product, url and hash exists; a call with
\* an already stored url and hash returns False and changes nothing; a
\* changed hash updates the existing row in place and returns True.
C29_StoreDocument ==
    [][ /\ OnePerTarget(raw_docs')
        /\ Holds(raw_docs', ret'.target.product_id, ret'.target.url,
                 ret'.content_hash)
        /\ Unchanged(ret') => (~ret'.result /\ raw_docs' = raw_docs)
        /\ Changed(ret') => (ret'.result /\ InPlace(ret')) ]_vars

\* the stage a node runs
StageOf(node) ==
    CASE node \in {"crawl", "discover_crawl"} -> "crawl"
      [] node \in {"bench", "benchmark"} -> "benchmark"
      [] OTHER -> node

StageOrder == <<"bootstrap", "crawl", "normalize", "report", "benchmark">>

\* the stages run so far, in the order they ran
StagesRun ==
    [i \in DOMAIN SelectSeq(log, LAMBDA l : l.node # "summary") |->
        StageOf(SelectSeq(log, LAMBDA l : l.node # "summary")[i].node)]

\* the nodes that raised, in the order they ran
RaisedNodes ==
    [i \in DOMAIN SelectSeq(log, LAMBDA l : l.raised) |->
        SelectSeq(log, LAMBDA l : l.raised)[i].node]

\* the stages ran in the fixed order, none twice, and errors has one entry
\* per stage that raised, in the order they ran
InOrder ==
    /\ Len(StagesRun) <= Len(StageOrder)
    /\ \A i \in DOMAIN StagesRun : StagesRun[i] = StageOrder[i]
    /\ Len(out.state.errors) = Len(RaisedNodes)
    /\ \A i \in DOMAIN RaisedNodes :
          out.state.errors[i].prefix = ErrorPrefix(variant, RaisedNodes[i])

AtEnd == pc = "END" /\ out.done /\ StagesRun = StageOrder

====
